---- MODULE Spec2Model ----
(***************************************************************************)
(* Reactivity core of frugal-ui/base (src/index.ts): BindableObject,       *)
(* BindableDummy, State, ComputedState, ProxyState, the unwrap helpers and *)
(* the per-component binding registry (createBinding / updateBinding /     *)
(* removeBinding) together with the component methods that wire bindings.  *)
(*                                                                         *)
(* The program is single-threaded and synchronous: every public call runs  *)
(* to completion, nested subscriber calls included, before the next one    *)
(* starts.  One action of the model is therefore one public call; the      *)
(* nested calls are computed by the recursive operators below, which       *)
(* thread the heap record h through the code exactly in program order.     *)
(* Every call leaves the list of things it did (h.trace) in lastOp.         *)
(***************************************************************************)
EXTENDS Integers, Sequences, FiniteSets, TLC

\* ------------------------------------------------------------------ bounds
MaxVal == 1        \* cell values are 0..MaxVal
MaxCells == 2      \* BindableObjects that can be constructed
MaxUuid == 2       \* Binding uuids that can be issued (new UUID())
MaxUpstream == 2   \* length of a ComputedState's statesToBind
MaxDepth == 12     \* nesting of subscriber calls before the call stack is exhausted
NumComponents == 1 \* components that own a binding registry
NumItems == 2      \* items a selection can hold
MaxArgs == 2       \* items passed to one select or deselect call
NumCheckables == 2 \* checkable components that can join a selection group
DiamondCells == 4  \* cells of the heap a diamond of ComputedStates is built in
MaxTimers == 2     \* drag-start timers that can be pending at once
MaxScenes == 3     \* scenes a stage can come to hold
MaxPending == 2    \* replaceScene calls that can wait at their await at once

Values == 0..MaxVal
Modulus == MaxVal + 1
Cells == 1..MaxCells
Components == 1..NumComponents
\* The checkable components (CheckableComponent: Checkbox, RadioButton) and all
\* components there are.
Checkables == (NumComponents + 1)..(NumComponents + NumCheckables)
AllComponents == Components \cup Checkables

\* The two callbacks application code passes around (f and g of the claims).
Fns == {"f", "g"}

\* The items a selection can hold.
Items == 1..NumItems

VARIABLES
    kind,        \* [Cells -> class of the object, "none" before construction]
    value,       \* BindableObject._value
    bindings,    \* State.bindings: Map uuid -> action, as the Map's entry list
    action,      \* BindableDummy.action (the single slot)
    statesToBind,\* ComputedState: configuration.statesToBind (captured by the binding)
    original,    \* ProxyState.original
    convert,     \* ProxyState.convertFromOriginal / convertToOriginal (which pair)
    registry,    \* component.bindings: Map bindable.uuid -> Binding, as entry list
    view,        \* the properties of a component that bound callbacks write
    listeners,   \* the event listeners a component's methods have added
    isExclusive, \* ValueSBModel.isExclusive of the models over a DataSelection
    selectionModel, \* a SelectionModel: its _selection, _value and _bindings
    sbModel,     \* the CheckSBModel built for a checkable component, if any
    list,        \* a List with dragToSort: the variables of its closure
    stage,       \* a Stage: its children, depth.value, suspended replaceScene calls
    proxied,     \* a State of the older version and the proxyState createProxy made of it
    issued,      \* one entry per Binding uuid issued: who built it, for which cell
    lastOp,      \* the last public call: its arguments, what it did, what it returned
    prevOp       \* the public call before lastOp, where a claim is about the pair

vars == <<kind, value, bindings, action, statesToBind, original, convert,
          registry, view, listeners, isExclusive, selectionModel, sbModel,
          list, stage, proxied, issued, lastOp, prevOp>>

\* ------------------------------------------------------- values of the heap
\* A BindingAction.  "fn": a callback of application code (it only records that
\* it was called); "compute": the action of a ComputedState's binding;
\* "proxy": the action of a ProxyState's binding; "view": a callback a
\* component method registers, which writes a property of the component.
\* `cells` are the cells the closure of a view callback has captured.
FnAction(f) == [type |-> "fn", self |-> 0, fn |-> f, cells |-> <<>>]
ComputeAction(c) == [type |-> "compute", self |-> c, fn |-> "", cells |-> <<>>]
ProxyAction(p) == [type |-> "proxy", self |-> p, fn |-> "", cells |-> <<>>]
ViewAction(k, m, cs) == [type |-> "view", self |-> k, fn |-> m, cells |-> cs]
\* Callbacks of application code that change the bindings of cell c while
\* they run: one attaches a new binding to c, the other detaches binding u.
SubscribingAction(c) ==
    [type |-> "subscribe", self |-> c, fn |-> "", cells |-> <<>>]
UnsubscribingAction(c, u) ==
    [type |-> "unsubscribe", self |-> c, fn |-> "", cells |-> <<u>>]
\* The action of a ComputedState c whose compute function assigns cell t, and
\* a callback of application code that assigns the value it is called with to
\* cell t.
ComputeIntoAction(c, t) ==
    [type |-> "computeInto", self |-> c, fn |-> "", cells |-> <<t>>]
AssigningAction(t) == [type |-> "assign", self |-> t, fn |-> "", cells |-> <<>>]
\* A callback of application code that puts cell c back to w when it is
\* called with another value.
NormalisingAction(c, w) ==
    [type |-> "normalise", self |-> c, fn |-> "", cells |-> <<w>>]
NoAction == [type |-> "none", self |-> 0, fn |-> "", cells |-> <<>>]

\* A Binding {uuid, action}.
Binding(u, a) == [uuid |-> u, action |-> a]
NoBinding == Binding(0, NoAction)

StateKinds == {"State", "ComputedState", "ProxyState"}

\* ------------------------------------------------------------- a JS Map
\* A Map is its list of entries in insertion order.  delete leaves an empty
\* entry behind (key 0), which forEach skips; the list is compacted when no
\* forEach can be running any more (at the end of the public call).
Entry(k, v) == [key |-> k, val |-> v]
MapHas(m, k) == \E i \in 1..Len(m) : m[i].key = k
MapIndex(m, k) == CHOOSE i \in 1..Len(m) : m[i].key = k
MapGet(m, k, none) == IF MapHas(m, k) THEN m[MapIndex(m, k)].val ELSE none
MapSet(m, k, v) ==
    IF MapHas(m, k) THEN [m EXCEPT ![MapIndex(m, k)].val = v]
    ELSE Append(m, Entry(k, v))
MapDelete(m, k, none) ==
    IF MapHas(m, k) THEN [m EXCEPT ![MapIndex(m, k)] = Entry(0, none)] ELSE m
MapCompact(m) == SelectSeq(m, LAMBDA e : e.key # 0)
MapSize(m) == Cardinality({i \in 1..Len(m) : m[i].key # 0})
MapKeys(m) == [i \in 1..Len(MapCompact(m)) |-> MapCompact(m)[i].key]

\* ------------------------------------------------------------ the trace
\* What a public call did, in program order.
Ev(e, id, a, x) == [e |-> e, id |-> id, fn |-> a, arg |-> x]
Log(h, ev) == [h EXCEPT !.trace = Append(@, ev)]
Overflow(h) == [h EXCEPT !.overflow = TRUE]

\* -------------------------------------------------- user-supplied functions
RECURSIVE SumValues(_, _)
SumValues(h, cs) ==
    IF cs = <<>> THEN 0 ELSE h.value[Head(cs)] + SumValues(h, Tail(cs))

\* configuration.compute reads the upstream cells and assigns self.value:
\* here the sum of the upstream values plus one.
Recompute(h, c) == (SumValues(h, h.statesToBind[c]) + 1) % Modulus

\* Conversion pairs of a ProxyState.  "shift": the two functions are inverses
\* of each other; "clamp": they are not (convertToOriginal cuts the largest
\* value down by one).
ConvertKinds == {"shift", "clamp"}
ConvertFromOriginal(cv, o) == IF cv = "shift" THEN (o + 1) % Modulus ELSE o
ConvertToOriginal(cv, t) ==
    IF cv = "shift" THEN (t + Modulus - 1) % Modulus
    ELSE IF t = MaxVal THEN MaxVal - 1 ELSE t

\* ------------------------------------------- what bound callbacks write
\* The properties of a component the wiring methods write.  A property holds
\* Unset until a callback has written it.
Props == {"innerText", "value", "innerHTML", "children", "attr", "toggled",
          "class", "ariaCurrent", "hidden", "ariaHidden", "checked"}
Unset == Modulus
Flag(b) == IF b THEN 1 ELSE 0
\* newValue == true, for a number: only 1 is loosely equal to true.
EqualsTrue(v) == v = 1
\* ToBoolean(newValue).
Truthy(v) == v # 0
\* ValueSBModel.getOwnIndex() != -1 (index.ts 229-231, 998): a selection array
\* is the number whose lowest bit says whether ownValue is in it.
OwnValueSelected(v) == v % 2 = 1

\* Array.indexOf: the 0-based position of the first x, -1 when there is none.
IndexOf(arr, x) ==
    IF \E i \in 1..Len(arr) : arr[i] = x
    THEN (CHOOSE i \in 1..Len(arr) :
              arr[i] = x /\ \A j \in 1..(i - 1) : arr[j] # x) - 1
    ELSE -1

\* Array.splice(i, 1), i the 0-based position.
Splice(arr, i) ==
    [j \in 1..(Len(arr) - 1) |-> IF j <= i THEN arr[j] ELSE arr[j + 1]]

\* ValueSBModel.getOwnIndex (index.ts 229-231).
GetOwnIndex(h, c, own) == IndexOf(h.value[c], own)

\* ValueSBModel.getData (index.ts 236-238).
GetData(h, c, own) == GetOwnIndex(h, c, own) # -1

\* A CheckSBModel (index.ts 209-227, 262-280): its selection's selectedItems
\* cell, its ownValue and its isExclusive.
SBModel(c, own, excl) == [selection |-> c, ownValue |-> own, isExclusive |-> excl]
NoModel == SBModel(0, 0, FALSE)

\* The callback a wiring method hands to createBinding, called with v:
\* setText 885-887, setValue 896-898, setHTML 907-909, setItems 872-874,
\* setAttr 800-802, toggleAttr 815-818, addToClassConditionally 839-841,
\* setAccessibilityCurrentState 773-775 (its setAttr of a literal binds a
\* throwaway BindableDummy and updates it at once: the attribute is written),
\* setVisibleIfMatch 957-959 with hideConditionally 948-952 (the same, for
\* hidden and aria-hidden), createTightBinding 985-987 with ValueTBModel's
\* setViewProperty 152-154, createSelectionBinding 997-1000 with CheckSBModel's
\* setView 273-275.  The registry entries of the throwaway cells are left
\* out: no reference to those cells exists, so nothing can look them up.
ViewCallback(h, a, v) ==
    LET k == a.self
        put(p, x) == [h EXCEPT !.view[k][p] = x]
    IN  CASE a.fn = "setText" -> put("innerText", v)
          [] a.fn = "setValue" -> put("value", v)
          [] a.fn = "setHTML" -> put("innerHTML", v)
          [] a.fn = "setItems" -> put("children", v)
          [] a.fn = "setAttr" -> put("attr", v)
          [] a.fn = "toggleAttr" -> put("toggled", Flag(EqualsTrue(v)))
          [] a.fn = "addToClassConditionally" -> put("class", Flag(Truthy(v)))
          [] a.fn = "setAccessibilityCurrentState" ->
                put("ariaCurrent", Flag(Truthy(v)))
          [] a.fn = "setVisibleIfMatch" ->
                LET differ == h.value[a.cells[1]] # h.value[a.cells[2]]
                IN  [h EXCEPT !.view[k]["hidden"] = Flag(differ),
                              !.view[k]["ariaHidden"] = Flag(differ)]
          [] a.fn = "createTightBinding" -> put("value", v)
          [] a.fn = "createSelectionBinding" ->
                put("checked", Flag(OwnValueSelected(h.value[a.cells[1]])))
          [] a.fn = "setView" ->
                put("checked",
                    Flag(GetOwnIndex(h, h.sbModel[k].selection,
                                     h.sbModel[k].ownValue) # -1))
          [] OTHER -> h

\* ------------------------------------------------ BindableObject and heirs
RECURSIVE Call(_, _, _, _, _), SetValue(_, _, _, _), TriggerAll(_, _, _),
          ForEachBinding(_, _, _, _), SetValueSkipsEqual(_, _, _, _),
          AddBinding(_, _, _), RemoveBinding(_, _, _), NewUuid(_),
          Issue(_, _, _, _, _)

\* A callback that attaches a further binding to the cell it is bound to, as
\* the List component's callback does (index.ts 1614-1617):
\* c.addBinding({uuid: new UUID(), action: f}).
SubscribingCallback(h, c) ==
    AddBinding(Issue(h, "callback", 0, c, FnAction("f")), c,
               Binding(NewUuid(h), FnAction("f")))

\* A callback that detaches binding u from the cell it is bound to:
\* c.removeBinding(binding).
UnsubscribingCallback(h, c, u) == RemoveBinding(h, c, Binding(u, NoAction))

\* Mutant: the binding action goes through the proxy's public setter.
ProxyBindingActionThroughSetter(h, d, p) ==
    LET o == h.value[h.original[p]]
        h1 == Log(h, Ev("convertFromOriginal", p, NoAction, o))
    IN  SetValue(h1, d, p, ConvertFromOriginal(h.convert[p], o))

\* Mutant: the binding action stores the value and triggers nothing.
ProxyBindingActionSilent(h, d, p) ==
    LET o == h.value[h.original[p]]
        h1 == Log(h, Ev("convertFromOriginal", p, NoAction, o))
    IN  [h1 EXCEPT !.value[p] = ConvertFromOriginal(h.convert[p], o)]

\* ProxyState's binding action (index.ts 418-423): assign _value directly
\* (not through the setter) and trigger the proxy's own bindings.
ProxyBindingAction(h, d, p) ==
    LET o == h.value[h.original[p]]
        h1 == Log(h, Ev("convertFromOriginal", p, NoAction, o))
        h2 == [h1 EXCEPT !.value[p] = ConvertFromOriginal(h.convert[p], o)]
    IN  TriggerAll(h2, d, p)

\* ComputedState's binding action (index.ts 370): configuration.compute(this).
ComputeBindingAction(h, d, c) ==
    SetValue(Log(h, Ev("compute", c, NoAction, 0)), d, c, Recompute(h, c))

\* The same for a compute function that assigns another cell:
\* compute: () => { t.value = ... } (ComputedStateCfg.compute, index.ts 358).
ComputeIntoBindingAction(h, d, c, t) ==
    SetValue(Log(h, Ev("compute", c, NoAction, t)), d, t, Recompute(h, c))

\* A callback of application code that assigns another cell:
\* (v) => { t.value = v } (BindingAction, index.ts 98).
AssigningCallback(h, d, t, v) == SetValue(h, d, t, v)

\* A callback of application code that assigns the cell it is bound to
\* while the cell's fan-out is running: (v) => { if (v != w) c.value = w }
\* (BindingAction, index.ts 98).
NormalisingCallback(h, d, c, w, v) == IF v # w THEN SetValue(h, d, c, w) ELSE h

\* One call of a BindingAction with argument v; u is the uuid it is kept under.
Call(h, d, u, a, v) ==
    IF h.overflow THEN h
    ELSE IF d = 0 THEN Overflow(h)
    ELSE LET h1 == Log(h, Ev("call", u, a, v))
         IN  CASE a.type = "compute" -> ComputeBindingAction(h1, d - 1, a.self)
               [] a.type = "proxy" -> ProxyBindingAction(h1, d - 1, a.self)
               [] a.type = "computeInto" ->
                      ComputeIntoBindingAction(h1, d - 1, a.self, a.cells[1])
               [] a.type = "assign" -> AssigningCallback(h1, d - 1, a.self, v)
               [] a.type = "normalise" ->
                      NormalisingCallback(h1, d - 1, a.self, a.cells[1], v)
               [] a.type = "view" -> ViewCallback(h1, a, v)
               [] a.type = "subscribe" -> SubscribingCallback(h1, a.self)
               [] a.type = "unsubscribe" ->
                      UnsubscribingCallback(h1, a.self, a.cells[1])
               [] OTHER -> h1

\* Map.prototype.forEach over State.bindings, from entry i on: the live list is
\* read again at every step and this.value is read again for every call.
ForEachBinding(h, d, c, i) ==
    IF h.overflow \/ i > Len(h.bindings[c]) THEN h
    ELSE LET e == h.bindings[c][i]
         IN  IF e.key = 0 THEN ForEachBinding(h, d, c, i + 1)
             ELSE ForEachBinding(Call(h, d, e.key, e.val, h.value[c]), d, c, i + 1)

\* triggerAll: State (index.ts 342-346), BindableDummy (323-325).
TriggerAll(h, d, c) ==
    IF h.kind[c] \in StateKinds THEN ForEachBinding(h, d, c, 1)
    ELSE IF h.kind[c] = "BindableDummy" /\ h.action[c].key # 0
         THEN Call(h, d, h.action[c].key, h.action[c].val, h.value[c])
    ELSE h

\* Mutant: the setter returns early when the new value equals the stored one.
SetValueSkipsEqual(h, d, c, v) ==
    IF h.overflow THEN h
    ELSE IF d = 0 THEN Overflow(h)
    ELSE IF h.value[c] = v THEN h
    ELSE LET h1 == Log([h EXCEPT !.value[c] = v], Ev("set", c, NoAction, v))
         IN  IF h.kind[c] = "ProxyState"
             THEN SetValueSkipsEqual(
                      Log(h1, Ev("convertToOriginal", c, NoAction, v)),
                      d - 1, h.original[c], ConvertToOriginal(h.convert[c], v))
             ELSE TriggerAll(h1, d - 1, c)

\* Mutant: the setter triggers the bindings before it stores the value.
SetValueTriggersFirst(h, d, c, v) ==
    IF h.overflow THEN h
    ELSE IF d = 0 THEN Overflow(h)
    ELSE LET h1 == TriggerAll(Log(h, Ev("set", c, NoAction, v)), d - 1, c)
         IN  [h1 EXCEPT !.value[c] = v]

\* set value: BindableObject (index.ts 300-303), ProxyState (429-432).
SetValue(h, d, c, v) ==
    IF h.overflow THEN h
    ELSE IF d = 0 THEN Overflow(h)
    ELSE LET h1 == Log([h EXCEPT !.value[c] = v], Ev("set", c, NoAction, v))
         IN  IF h.kind[c] = "ProxyState"
             THEN SetValue(Log(h1, Ev("convertToOriginal", c, NoAction, v)),
                           d - 1, h.original[c],
                           ConvertToOriginal(h.convert[c], v))
             ELSE TriggerAll(h1, d - 1, c)

\* Mutant: triggerBinding calls every binding of the cell.
TriggerBindingTriggersAll(h, d, c, b) == TriggerAll(h, d, c)

\* triggerBinding: State (index.ts 339-341) calls the binding it is given;
\* BindableDummy (320-322) ignores its argument and calls its slot.
TriggerBinding(h, d, c, b) ==
    IF h.kind[c] \in StateKinds THEN Call(h, d, b.uuid, b.action, h.value[c])
    ELSE IF h.kind[c] = "BindableDummy" /\ h.action[c].key # 0
         THEN Call(h, d, h.action[c].key, h.action[c].val, h.value[c])
    ELSE h

\* addBinding: State (index.ts 347-349), BindableDummy (326-328).
AddBinding(h, c, b) ==
    IF h.kind[c] \in StateKinds
    THEN [h EXCEPT !.bindings[c] = MapSet(@, b.uuid, b.action)]
    ELSE IF h.kind[c] = "BindableDummy"
         THEN [h EXCEPT !.action[c] = Entry(b.uuid, b.action)]
    ELSE h

\* removeBinding: State (index.ts 350-352); BindableDummy inherits
\* BindableObject's empty method (309).
RemoveBinding(h, c, b) ==
    IF h.kind[c] \in StateKinds
    THEN [h EXCEPT !.bindings[c] = MapDelete(@, b.uuid, NoAction)]
    ELSE h

\* new UUID() for a Binding with action a for cell c, built by application
\* code ("user"), by component k ("component") or by the constructor of cell
\* k ("cell").
NewUuid(h) == Len(h.issued) + 1
Issue(h, by, k, c, a) ==
    [h EXCEPT !.issued = Append(@, [by |-> by, id |-> k, cell |-> c, fn |-> a])]

\* ------------------------------------------------- the component's registry
\* component.bindings maps bindable.uuid (here: the cell) to the Binding.
RegisteredBinding(h, k, c) == MapGet(h.registry[k], c, NoBinding)

\* Mutant: the registry entry is stored under the binding's uuid.
ComponentCreateBindingKeyedByBinding(h, k, c, a) ==
    LET b == Binding(NewUuid(h), a)
        h1 == AddBinding(Issue(h, "component", k, c, a), c, b)
    IN  [h1 EXCEPT !.registry[k] = MapSet(@, MaxCells + b.uuid, b)]

\* Mutant: createBinding detaches the binding its registry entry held before.
ComponentCreateBindingReplacesStale(h, k, c, a) ==
    LET b == Binding(NewUuid(h), a)
        h0 == RemoveBinding(h, c, RegisteredBinding(h, k, c))
        h1 == AddBinding(Issue(h0, "component", k, c, a), c, b)
    IN  [h1 EXCEPT !.registry[k] = MapSet(@, c, b)]

\* component.createBinding(bindable, action) (index.ts 972-982).
ComponentCreateBinding(h, k, c, a) ==
    LET b == Binding(NewUuid(h), a)
        h1 == AddBinding(Issue(h, "component", k, c, a), c, b)
    IN  [h1 EXCEPT !.registry[k] = MapSet(@, c, b)]

\* component.removeBinding(bindable) (index.ts 1009-1022).
ComponentRemoveBinding(h, k, c) ==
    LET b == RegisteredBinding(h, k, c)
    IN  IF b.uuid = 0 THEN Log(h, Ev("error", c, NoAction, 0))
        ELSE [RemoveBinding(h, c, b) EXCEPT
                  !.registry[k] = MapDelete(@, c, NoBinding)]

\* Mutant: the early return after the diagnostic is missing.
ComponentUpdateBindingFallsThrough(h, d, k, c) ==
    LET b == RegisteredBinding(h, k, c)
        h1 == IF b.uuid = 0 THEN Log(h, Ev("error", c, NoAction, 0)) ELSE h
    IN  TriggerAll(h1, d, c)

\* component.updateBinding(bindable) (index.ts 1023-1035).
ComponentUpdateBinding(h, d, k, c) ==
    LET b == RegisteredBinding(h, k, c)
    IN  IF b.uuid = 0 THEN Log(h, Ev("error", c, NoAction, 0))
        ELSE TriggerBinding(h, d, c, b)

\* ------------------------------------------------------------ constructors
\* new State(v) (index.ts 291-293, 335-336).
ConstructState(h, c, v) ==
    [h EXCEPT !.kind[c] = "State", !.value[c] = v]

\* new BindableDummy(v) (index.ts 316-317).
ConstructBindableDummy(h, c, v) ==
    [h EXCEPT !.kind[c] = "BindableDummy", !.value[c] = v]

\* ------------------------------------------------------ ValueObject helpers
\* A ValueObject<T> is a BindableObject (a cell) or a raw value.
CellRef(c) == [isCell |-> TRUE, ref |-> c]
Literal(v) == [isCell |-> FALSE, ref |-> v]
FreeCellsOf(h) == {c \in Cells : h.kind[c] = "none"}
FreeCellOf(h) ==
    CHOOSE c \in FreeCellsOf(h) : \A c2 \in FreeCellsOf(h) : c <= c2

\* Mutant: unwrapValue returns its argument whatever it is.
UnwrapValueReturnsArgument(h, x) == x.ref

\* unwrapValue (index.ts 488-491).
UnwrapValue(h, x) == IF x.isCell THEN h.value[x.ref] ELSE x.ref

\* Mutant: unwrapBindable wraps a cell into a new BindableDummy as well.
UnwrapBindableAlwaysWraps(h, x) ==
    IF FreeCellsOf(h) = {} THEN [h |-> h, cell |-> x.ref]
    ELSE [h |-> ConstructBindableDummy(
                    h, FreeCellOf(h),
                    IF x.isCell THEN h.value[x.ref] ELSE x.ref),
          cell |-> FreeCellOf(h)]

\* unwrapBindable (index.ts 493-498): the cell itself, or a new BindableDummy
\* holding the raw value.
UnwrapBindable(h, x) ==
    IF x.isCell THEN [h |-> h, cell |-> x.ref]
    ELSE [h |-> ConstructBindableDummy(h, FreeCellOf(h), UnwrapValue(h, x)),
          cell |-> FreeCellOf(h)]

\* ------------------------------------------- the component's wiring methods
\* component.createBinding(bindable, callback).updateBinding(bindable), the
\* chain the wiring methods share (e.g. index.ts 799-803).
BindAndUpdate(h, d, k, m, c, cs) ==
    ComponentUpdateBinding(
        ComponentCreateBinding(h, k, c, ViewAction(k, m, cs)), d, k, c)

\* setText 881-891, setValue 892-902, setHTML 903-913, setItems 868-878,
\* setAttr 796-806, toggleAttr 811-822, addToClassConditionally 835-845.
Setters == {"setText", "setValue", "setHTML", "setItems", "setAttr",
            "toggleAttr", "addToClassConditionally"}
ComponentSetter(h, d, k, m, x) ==
    LET u == UnwrapBindable(h, x)
    IN  BindAndUpdate(u.h, d, k, m, u.cell, <<u.cell>>)

\* component.setAccessibilityCurrentState(state, shouldApply)
\* (index.ts 772-777).
ComponentSetAccessibilityCurrentState(h, k, c) ==
    ComponentCreateBinding(
        h, k, c, ViewAction(k, "setAccessibilityCurrentState", <<c>>))

\* component.setVisibleIfMatch(a, b) (index.ts 953-968).
ComponentSetVisibleIfMatch(h, d, k, a, b) ==
    LET ua == UnwrapBindable(h, a)
        ub == UnwrapBindable(ua.h, b)
        cs == <<ua.cell, ub.cell>>
        h1 == BindAndUpdate(ub.h, d, k, "setVisibleIfMatch", ua.cell, cs)
    IN  BindAndUpdate(h1, d, k, "setVisibleIfMatch", ub.cell, cs)

\* component.listen(eventName, handler) (index.ts 916-919).
Listen(h, k, ev, m, c) ==
    [h EXCEPT !.listeners[k] =
                  Append(@, [event |-> ev, model |-> m, cell |-> c])]

\* Mutant: createTightBinding does not call updateBinding.
ComponentCreateTightBindingWithoutUpdate(h, d, k, c) ==
    Listen(ComponentCreateBinding(
               h, k, c, ViewAction(k, "createTightBinding", <<c>>)),
           k, "input", "createTightBinding", c)

\* component.createTightBinding(model), model a ValueTBModel over cell c
\* (index.ts 983-994).
ComponentCreateTightBinding(h, d, k, c) ==
    Listen(BindAndUpdate(h, d, k, "createTightBinding", c, <<c>>),
           k, "input", "createTightBinding", c)

\* ValueTBModel's getViewProperty (index.ts 148-150):
\* this.component.value ?? this.defaultValue.
FallbackValue == 0
GetViewValue(h, k) ==
    IF h.view[k]["value"] = Unset THEN FallbackValue ELSE h.view[k]["value"]

\* The 'input' event on component k: the listeners added for it run in the
\* order they were added, from listener i on.  The listener of a tight
\* binding (index.ts 989-991) assigns model.data.value = model.getViewValue().
RECURSIVE DispatchInputFrom(_, _, _, _)
DispatchInputFrom(h, d, k, i) ==
    IF h.overflow \/ i > Len(h.listeners[k]) THEN h
    ELSE LET l == h.listeners[k][i]
             h1 == IF l.event = "input"
                   THEN SetValue(Log(h, Ev("listener", l.cell, NoAction, i)),
                                 d, l.cell, GetViewValue(h, k))
                   ELSE h
         IN  DispatchInputFrom(h1, d, k, i + 1)

\* component.createSelectionBinding(model), model a CheckSBModel whose
\* selection.selectedItems is cell c (index.ts 995-1008).
ComponentCreateSelectionBinding(h, d, k, c) ==
    Listen(BindAndUpdate(h, d, k, "createSelectionBinding", c, <<c>>),
           k, "change", "createSelectionBinding", c)

\* statesToBind.forEach(bindable => { addBinding; triggerBinding }) from
\* upstream i on (index.ts 373-376).
RECURSIVE BindStates(_, _, _, _, _)
BindStates(h, d, ups, i, b) ==
    IF h.overflow \/ i > Len(ups) THEN h
    ELSE BindStates(TriggerBinding(AddBinding(h, ups[i], b), d, ups[i], b),
                    d, ups, i + 1, b)

\* new ComputedState({statesToBind, initialValue, compute}) (index.ts 365-377).
ConstructComputedState(h, d, c, ups, init) ==
    LET b == Binding(NewUuid(h), ComputeAction(c))
        h1 == [h EXCEPT !.kind[c] = "ComputedState", !.value[c] = init,
                        !.statesToBind[c] = ups]
    IN  BindStates(Issue(h1, "cell", c, c, b.action), d, ups, 1, b)

\* new ComputedState({statesToBind, initialValue, compute}) with a compute
\* function that assigns cell t (index.ts 365-377).
ConstructComputedStateInto(h, d, c, ups, init, t) ==
    LET b == Binding(NewUuid(h), ComputeIntoAction(c, t))
        h1 == [h EXCEPT !.kind[c] = "ComputedState", !.value[c] = init,
                        !.statesToBind[c] = ups]
    IN  BindStates(Issue(h1, "cell", c, c, b.action), d, ups, 1, b)

\* new ProxyState({original, convertFromOriginal, convertToOriginal})
\* (index.ts 409-427).
ConstructProxyState(h, d, p, o, cv) ==
    LET b == Binding(NewUuid(h), ProxyAction(p))
        h1 == Log(h, Ev("convertFromOriginal", p, NoAction, h.value[o]))
        h2 == [h1 EXCEPT !.kind[p] = "ProxyState",
                         !.value[p] = ConvertFromOriginal(cv, h.value[o]),
                         !.original[p] = o, !.convert[p] = cv]
    IN  TriggerBinding(AddBinding(Issue(h2, "cell", p, o, b.action), o, b), d, o, b)

\* ---------------------------------------------- DataSelection, ValueSBModel
\* new DataSelection() (index.ts 192-195): selectedItems = new State([]); its
\* models are built with isExclusive = excl.
ConstructDataSelection(h, c, excl) ==
    [ConstructState(h, c, <<>>) EXCEPT !.isExclusive[c] = excl]

\* Mutant: setData(true) does not look whether ownValue is selected already.
SetDataPushesAgain(h, d, c, own, excl, isSelected) ==
    IF isSelected
    THEN IF excl = TRUE THEN SetValue(h, d, c, <<own>>)
         ELSE TriggerAll([h EXCEPT !.value[c] = Append(@, own)], d, c)
    ELSE IF GetOwnIndex(h, c, own) = -1 THEN h
         ELSE TriggerAll(
                  [h EXCEPT !.value[c] = Splice(@, GetOwnIndex(h, c, own))],
                  d, c)

\* Mutant: setData(true) pushes ownValue whether or not the model is exclusive.
SetDataAlwaysPushes(h, d, c, own, excl, isSelected) ==
    IF isSelected
    THEN IF GetOwnIndex(h, c, own) # -1 THEN h
         ELSE TriggerAll([h EXCEPT !.value[c] = Append(@, own)], d, c)
    ELSE IF GetOwnIndex(h, c, own) = -1 THEN h
         ELSE TriggerAll(
                  [h EXCEPT !.value[c] = Splice(@, GetOwnIndex(h, c, own))],
                  d, c)

\* ValueSBModel.setData(isSelected) (index.ts 239-252) of a model with
\* ownValue own and isExclusive excl over the selection whose selectedItems is
\* cell c.
SetData(h, d, c, own, excl, isSelected) ==
    IF isSelected
    THEN IF GetOwnIndex(h, c, own) # -1 THEN h
         ELSE IF excl = TRUE THEN SetValue(h, d, c, <<own>>)
         ELSE TriggerAll([h EXCEPT !.value[c] = Append(@, own)], d, c)
    ELSE IF GetOwnIndex(h, c, own) = -1 THEN h
         ELSE TriggerAll(
                  [h EXCEPT !.value[c] = Splice(@, GetOwnIndex(h, c, own))],
                  d, c)

\* Mutant: createSelectionBinding does not call updateBinding.
ComponentCreateSelectionBindingOfModelWithoutUpdate(h, d, k, m) ==
    Listen(ComponentCreateBinding(
               [h EXCEPT !.sbModel[k] = m], k, m.selection,
               ViewAction(k, "setView", <<m.selection>>)),
           k, "change", "CheckSBModel", m.selection)

\* k.createSelectionBinding(new CheckSBModel({component: k, ownValue,
\* selection, isExclusive})) (index.ts 995-1008, 262-280): the bound callback
\* writes k.checked, the listener of 'change' calls model.setData.
ComponentCreateSelectionBindingOfModel(h, d, k, m) ==
    Listen(BindAndUpdate([h EXCEPT !.sbModel[k] = m], d, k, "setView",
                         m.selection, <<m.selection>>),
           k, "change", "CheckSBModel", m.selection)

\* CheckSBModel's getView (index.ts 270-272): this.component.checked.
GetView(h, k) == h.view[k]["checked"] = 1

\* The 'change' event on component k, from listener i on: the listener of a
\* selection binding (index.ts 1002-1005) calls model.setData(model.getView()).
RECURSIVE DispatchChangeFrom(_, _, _, _)
DispatchChangeFrom(h, d, k, i) ==
    IF h.overflow \/ i > Len(h.listeners[k]) THEN h
    ELSE LET l == h.listeners[k][i]
             m == h.sbModel[k]
             h1 == IF l.event = "change" /\ l.model = "CheckSBModel"
                   THEN SetData(Log(h, Ev("listener", l.cell, NoAction, i)),
                                d, m.selection, m.ownValue, m.isExclusive,
                                GetView(h, k))
                   ELSE h
         IN  DispatchChangeFrom(h1, d, k, i + 1)

\* ------------------------------------------- SelectionModel (earlier version)
\* An array is the list of its elements and its identity: `==` on two arrays
\* compares identities.  The only array a new one is ever compared with is the
\* one the model holds, so two identities are enough: a new array takes the
\* identity the held one does not have.
Array(r, xs) == [ref |-> r, items |-> xs]
SameObject(a, b) == a.ref = b.ref
NewArray(h, xs) == Array(1 - h.selectionModel.value.ref, xs)

\* A Set is the list of its elements in insertion order.
SetAdd(q, x) == IF \E i \in 1..Len(q) : q[i] = x THEN q ELSE Append(q, x)
SetDelete(q, x) == SelectSeq(q, LAMBDA y : y # x)
RECURSIVE SetAddAll(_, _), SetDeleteAll(_, _)
SetAddAll(q, xs) ==
    IF xs = <<>> THEN q ELSE SetAddAll(SetAdd(q, Head(xs)), Tail(xs))
SetDeleteAll(q, xs) ==
    IF xs = <<>> THEN q ELSE SetDeleteAll(SetDelete(q, Head(xs)), Tail(xs))

\* new SelectionModel() (part_007 338-342, 204-210).
ConstructSelectionModel ==
    [selection |-> <<>>, value |-> Array(0, <<>>), bindings |-> <<>>]

\* State.callSubscriptions (part_007 231-233): each subscribing function is
\* called with _value.
RECURSIVE CallSubscriptionsFrom(_, _)
CallSubscriptionsFrom(h, i) ==
    IF i > Len(h.selectionModel.bindings) THEN h
    ELSE CallSubscriptionsFrom(
             Log(h, Ev("notify", i, FnAction(h.selectionModel.bindings[i]),
                       h.selectionModel.value.items)), i + 1)
CallSubscriptions(h) == CallSubscriptionsFrom(h, 1)

\* Mutant: the setter compares the contents of the two arrays.
StateSetValueByContent(h, a) ==
    IF h.selectionModel.value.items = a.items THEN h
    ELSE CallSubscriptions([h EXCEPT !.selectionModel.value = a])

\* State set value (part_007 222-226).
StateSetValue(h, a) ==
    IF SameObject(h.selectionModel.value, a) THEN h
    ELSE CallSubscriptions([h EXCEPT !.selectionModel.value = a])

\* SelectionModel.getItems (part_007 377-379): a new array of the Set's values.
GetItems(h) == NewArray(h, h.selectionModel.selection)

\* SelectionModel.update (part_007 381-384).
SelectionUpdate(h) == StateSetValue(h, GetItems(h))

\* Mutant: deselect removes only the first of the items it is given.
SelectionDeselectFirstOnly(h, xs) ==
    SelectionUpdate([h EXCEPT !.selectionModel.selection =
                        IF xs = <<>> THEN @ ELSE SetDelete(@, Head(xs))])

\* SelectionModel.select (part_007 346-349).
SelectionSelect(h, xs) ==
    SelectionUpdate([h EXCEPT !.selectionModel.selection = SetAddAll(@, xs)])

\* SelectionModel.deselect (part_007 354-357).
SelectionDeselect(h, xs) ==
    SelectionUpdate([h EXCEPT !.selectionModel.selection = SetDeleteAll(@, xs)])

\* SelectionModel.clear (part_007 361-364).
SelectionClear(h) ==
    SelectionUpdate([h EXCEPT !.selectionModel.selection = <<>>])

\* State.subscribe (part_007 239-241) and State.unsubscribe (246-248).
StateSubscribe(h, f) == [h EXCEPT !.selectionModel.bindings = SetAdd(@, f)]
StateUnsubscribe(h, f) == [h EXCEPT !.selectionModel.bindings = SetDelete(@, f)]

SelectionOps == {"select", "deselect", "clear"}

\* ------------------------------------------------- List with dragToSort
\* List(configuration, compute) with dragToSort (index.ts 1507-1669) over the
\* items Items, item i shown by component i with index i - 1: the variables
\* of the closure (1512-1514), the timers setTimeout has started and that have
\* neither run nor been cleared, oldest first, whether mouseup and touchend of
\* document.body call stopDrag, the components of class 'dragging', and
\* index.value of the items.
ConstructList ==
    [draggedData |-> 0, draggedComponent |-> 0, dragStartTimeout |-> 0,
     timers |-> <<>>, listening |-> FALSE, dragging |-> {},
     index |-> [i \in Items |-> i - 1]]

\* setTimeout: the id of a new timer differs from the ids of the pending ones.
TimerIds(l) == {l.timers[n].id : n \in 1..Len(l.timers)}
NewTimerId(l) ==
    CHOOSE n \in 1..(Len(l.timers) + 1) :
        n \notin TimerIds(l) /\ \A m \in 1..(n - 1) : m \in TimerIds(l)

\* clearTimeout(id).
ClearTimeout(l, id) ==
    [l EXCEPT !.timers = SelectSeq(@, LAMBDA t : t.id # id)]

\* cleanIndices (index.ts 1518-1523): the items sorted by index (a stable
\* sort of the Map's values) are numbered from 0.
CleanIndices(l) ==
    [l EXCEPT !.index =
        [i \in Items |->
            Cardinality({j \in Items :
                \/ l.index[j] < l.index[i]
                \/ l.index[j] = l.index[i] /\ j < i})]]

\* startDrag(e, data, component) (index.ts 1525-1533) for item i.
StartDrag(l, i) ==
    [l EXCEPT !.listening = TRUE,
              !.dragStartTimeout = NewTimerId(l),
              !.timers = Append(@, [id |-> NewTimerId(l), data |-> i,
                                    component |-> i])]

\* The callback of the oldest pending timer runs (index.ts 1529-1532).
DragStartTimer(l) ==
    LET t == Head(l.timers)
    IN  [l EXCEPT !.timers = Tail(@),
                  !.draggedData = t.data,
                  !.draggedComponent = t.component,
                  !.dragging = @ \cup {t.component}]

\* handleDragMove(e) (index.ts 1534-1564) with the element under the cursor
\* showing item j (0: no item): the two items swap their indices.
HandleDragMove(l, j) ==
    IF l.draggedData = 0 \/ j = 0 THEN l
    ELSE [l EXCEPT !.index[l.draggedData] = l.index[j],
                   !.index[j] = l.index[l.draggedData]]

\* stopDrag() (index.ts 1565-1579).
StopDrag(l) ==
    LET l1 == IF l.dragStartTimeout # 0
              THEN ClearTimeout(l, l.dragStartTimeout) ELSE l
    IN  IF l1.draggedData = 0 THEN l1
        ELSE LET l2 == CleanIndices([l1 EXCEPT !.listening = FALSE,
                                               !.draggedData = 0])
             IN  IF l2.draggedComponent = 0 THEN l2
                 ELSE [l2 EXCEPT !.dragging = @ \ {l2.draggedComponent},
                                 !.draggedComponent = 0]

\* ------------------------------------------------------------------ Stage
\* A scene of the stage: the object's identity, its depth and whether its
\* linkSelection holds a link (index.ts 2148-2168).  No code of the library
\* gives a child the class 'animating-out', so getPersistingChildren
\* (2235-2240) returns all children.  A scene that has been removed keeps
\* its binding on stage.depth, which writes only that scene's own
\* linkSelection.
Scene(id, d) == [id |-> id, depth |-> d, linked |-> FALSE]
SceneIds(s) == {s.children[n].id : n \in 1..Len(s.children)}
NewSceneId(s) ==
    CHOOSE n \in 1..(Len(s.children) + 1) :
        n \notin SceneIds(s) /\ \A m \in 1..(n - 1) : m \in SceneIds(s)

\* getDepth (index.ts 2241-2243).
GetDepth(s) == Len(s.children)

\* updateDepth (index.ts 2244-2247): depth.value = getDepth(); the binding of
\* every scene (2161-2167) empties the scene's linkSelection unless the stage
\* is deeper than the scene's depth + 1.
UpdateDepth(s) ==
    [s EXCEPT !.depth = GetDepth(s),
              !.children =
                  [n \in 1..Len(s.children) |->
                      IF GetDepth(s) > s.children[n].depth + 1
                      THEN s.children[n]
                      ELSE [s.children[n] EXCEPT !.linked = FALSE]]]

\* stage.addScene(Scene, data, depth) (index.ts 2251-2257).
AddScene(s, d) ==
    [s EXCEPT !.children = Append(@, Scene(NewSceneId(s), d))]

\* stage.goBackTo(depth, shouldUpdate) (index.ts 2267-2276): its body has no
\* await and runs within the call.
GoBackTo(s, d, shouldUpdate) ==
    LET keep == IF d + 1 < 0 THEN 0
                ELSE IF d + 1 < Len(s.children) THEN d + 1
                ELSE Len(s.children)
        s1 == [s EXCEPT !.children = SubSeq(@, 1, keep)]
    IN  IF shouldUpdate THEN UpdateDepth(s1) ELSE s1

\* stage.replaceScene(Scene, data, depth) up to its await (index.ts 2259-2260):
\* goBackTo runs, the rest of the call is suspended.
ReplaceSceneUntilAwait(s, d) ==
    [GoBackTo(s, d - 1, FALSE) EXCEPT !.pending = Append(@, d)]

\* The suspended replaceScene call that has waited longest resumes
\* (index.ts 2261-2264).
ReplaceSceneAfterAwait(s) ==
    UpdateDepth(AddScene([s EXCEPT !.pending = Tail(@)], Head(s.pending)))

\* Stage(initialScene, initialSceneData) (index.ts 2229-2280).
ConstructStage ==
    AddScene([children |-> <<>>, depth |-> 0, pending |-> <<>>], 0)

\* ------------------------------------------- State.createProxy (older version)
\* The State of the older version (part_007 204-268) and the proxy made of
\* it: "this" is the State createProxy is called on, "proxyState" the State
\* it returns.  cfg names the StateProxyCfg ("" before createProxy is
\* called), value holds _value of the two States, bindings their _bindings (a
\* Set of functions, in insertion order).
ProxiedStates == {"this", "proxyState"}
StateId(s) == IF s = "this" THEN 1 ELSE 2

\* The StateProxyCfgs (part_007 192-198): the conversion pairs of a
\* ProxyState; "flip", whose convertToProxy returns its argument and whose
\* convertToOriginal mirrors it (x => MaxVal - x); "oneWay", which has no
\* convertToOriginal.
ProxyCfgs == ConvertKinds \cup {"flip", "oneWay"}
CfgConvertToProxy(cfg, o) == ConvertFromOriginal(cfg, o)
CfgConvertToOriginal(cfg, t) ==
    IF cfg = "flip" THEN MaxVal - t ELSE ConvertToOriginal(cfg, t)

\* const s = new State(0) (part_007 208-210).
ConstructProxied ==
    [cfg |-> "", value |-> [s \in ProxiedStates |-> 0],
     bindings |-> [s \in ProxiedStates |-> <<>>]]

RECURSIVE ProxiedSetValue(_, _, _, _), ProxiedCallSubscriptionsFrom(_, _, _, _),
          ProxiedCall(_, _, _, _, _)

\* One call of a subscribing function of s with argument v: the two closures
\* of createProxy (part_007 259-265) and functions of application code.
ProxiedCall(h, d, s, fn, v) ==
    IF h.overflow THEN h
    ELSE IF d = 0 THEN Overflow(h)
    ELSE LET h1 == Log(h, Ev("call", StateId(s), FnAction(fn), v))
         IN  CASE fn = "toProxy" ->
                      ProxiedSetValue(h1, d - 1, "proxyState",
                                      CfgConvertToProxy(h.proxied.cfg, v))
               [] fn = "toOriginal" ->
                      IF h.proxied.cfg = "oneWay" THEN h1
                      ELSE ProxiedSetValue(h1, d - 1, "this",
                                           CfgConvertToOriginal(h.proxied.cfg, v))
               [] OTHER -> h1

\* State.callSubscriptions (part_007 231-233), from the i-th function on:
\* _value is read again for every call.
ProxiedCallSubscriptionsFrom(h, d, s, i) ==
    IF h.overflow \/ i > Len(h.proxied.bindings[s]) THEN h
    ELSE ProxiedCallSubscriptionsFrom(
             ProxiedCall(h, d, s, h.proxied.bindings[s][i], h.proxied.value[s]),
             d, s, i + 1)

\* State set value (part_007 222-226).
ProxiedSetValue(h, d, s, v) ==
    IF h.overflow THEN h
    ELSE IF d = 0 THEN Overflow(h)
    ELSE IF h.proxied.value[s] = v THEN h
    ELSE ProxiedCallSubscriptionsFrom(
             Log([h EXCEPT !.proxied.value[s] = v], Ev("set", StateId(s), NoAction, v)),
             d - 1, s, 1)

\* State.subscribe (part_007 239-241).
ProxiedSubscribe(h, s, fn) == [h EXCEPT !.proxied.bindings[s] = SetAdd(@, fn)]

\* State.createProxy (part_007 257-267).
StateCreateProxy(h, cfg) ==
    LET h1 == [h EXCEPT !.proxied.cfg = cfg,
                        !.proxied.value["proxyState"] =
                            CfgConvertToProxy(cfg, h.proxied.value["this"]),
                        !.proxied.bindings["proxyState"] = <<>>]
    IN  ProxiedSubscribe(ProxiedSubscribe(h1, "this", "toProxy"),
                         "proxyState", "toOriginal")

\* ------------------------------------------------------------ public calls
Heap ==
    [kind |-> kind, value |-> value, bindings |-> bindings, action |-> action,
     statesToBind |-> statesToBind, original |-> original, convert |-> convert,
     registry |-> registry, view |-> view, listeners |-> listeners,
     isExclusive |-> isExclusive,
     selectionModel |-> selectionModel, sbModel |-> sbModel, list |-> list,
     stage |-> stage, proxied |-> proxied,
     issued |-> issued,
     trace |-> <<>>, overflow |-> FALSE]

\* The uuids attached to cell c, in the order a triggerAll calls them.
Subscribers(h, c) ==
    IF h.kind[c] \in StateKinds THEN MapKeys(h.bindings[c])
    ELSE IF h.kind[c] = "BindableDummy" /\ h.action[c].key # 0
         THEN <<h.action[c].key>>
    ELSE <<>>

\* The record of one public call: the component it was made on (0: none), the
\* cell and value it was given, the callback or uuid it was given, the
\* subscribers the cell had when the call started.
Op(name, k, c, v, f, u) ==
    [op |-> name, comp |-> k, cell |-> c, cell2 |-> 0, val |-> v, fn |-> f,
     items |-> <<>>, old |-> <<>>,
     uuid |-> u, subs |-> IF c \in DOMAIN kind THEN Subscribers(Heap, c) ELSE <<>>,
     trace |-> <<>>, ret |-> 0, overflow |-> FALSE]
NoOp == [op |-> "none", comp |-> 0, cell |-> 0, cell2 |-> 0, val |-> 0,
         items |-> <<>>, old |-> <<>>,
         fn |-> "", uuid |-> 0, subs |-> <<>>, trace |-> <<>>, ret |-> 0,
         overflow |-> FALSE]

\* prevOp keeps the call before lastOp when the two are assignments to the
\* same cell, or a createBinding and the updateBinding of the same component
\* for the same cell.
KeepsPrevious(o) ==
    /\ lastOp.cell = o.cell
    /\ \/ o.op = "assign" /\ lastOp.op = "assign"
       \/ /\ o.op = "updateBinding" /\ lastOp.op = "createBinding"
          /\ o.comp = lastOp.comp

\* The public call o ends with heap h and returns r.
Return(o, h, r) ==
    /\ kind' = h.kind
    /\ value' = h.value
    /\ bindings' = [c \in DOMAIN h.bindings |-> MapCompact(h.bindings[c])]
    /\ action' = h.action
    /\ statesToBind' = h.statesToBind
    /\ original' = h.original
    /\ convert' = h.convert
    /\ registry' = [k \in AllComponents |-> MapCompact(h.registry[k])]
    /\ view' = h.view
    /\ listeners' = h.listeners
    /\ isExclusive' = h.isExclusive
    /\ selectionModel' = h.selectionModel
    /\ sbModel' = h.sbModel
    /\ list' = h.list
    /\ stage' = h.stage
    /\ proxied' = h.proxied
    /\ issued' = h.issued
    /\ lastOp' = [o EXCEPT !.trace = h.trace, !.ret = r, !.overflow = h.overflow]
    /\ prevOp' = IF KeepsPrevious(o) THEN lastOp ELSE NoOp

Constructed == {c \in Cells : kind[c] # "none"}
FullCells == {c \in Cells : kind[c] \in StateKinds}
HasFreeCell == Constructed # Cells
FreeCell == CHOOSE c \in Cells \ Constructed : \A c2 \in Cells \ Constructed : c <= c2
CanIssue == Len(issued) < MaxUuid

\* Sequences over S of length at most n.
SeqsUpTo(S, n) == UNION {[1..m -> S] : m \in 0..n}

\* const s = new State(v)
NewState(v) ==
    /\ HasFreeCell
    /\ Return(Op("newState", 0, FreeCell, v, "", 0),
              ConstructState(Heap, FreeCell, v), 0)

\* const c = new ComputedState({statesToBind: ups, initialValue: init, compute})
NewComputedState(ups, init) ==
    /\ HasFreeCell /\ CanIssue
    /\ Return(Op("newComputedState", 0, FreeCell, init, "", 0),
              ConstructComputedState(Heap, MaxDepth, FreeCell, ups, init), 0)

\* const p = new ProxyState({original: o, ...cv})
NewProxyState(o, cv) ==
    /\ HasFreeCell /\ CanIssue
    /\ Return(Op("newProxyState", 0, FreeCell, 0, "", 0),
              ConstructProxyState(Heap, MaxDepth, FreeCell, o, cv), 0)

\* c.addBinding({uuid: new UUID(), action: f})
UserAddBinding(c) ==
    /\ CanIssue
    /\ Return(Op("addBinding", 0, c, 0, "f", NewUuid(Heap)),
              AddBinding(Issue(Heap, "user", 0, c, FnAction("f")), c,
                         Binding(NewUuid(Heap), FnAction("f"))), 0)

\* c.removeBinding(binding), binding one the application built for c earlier
UserRemoveBinding(c, u) ==
    /\ issued[u].by = "user" /\ issued[u].cell = c
    /\ Return(Op("removeBinding", 0, c, 0, "", u),
              RemoveBinding(Heap, c, Binding(u, NoAction)), 0)

\* c.value = v
Assign(c, v) ==
    Return(Op("assign", 0, c, v, "", 0), SetValue(Heap, MaxDepth, c, v), 0)

\* c.triggerAll()
UserTriggerAll(c) ==
    Return(Op("triggerAll", 0, c, 0, "", 0), TriggerAll(Heap, MaxDepth, c), 0)

\* unwrapBindable(v) for a literal v (index.ts 493-498): a new BindableDummy.
UnwrapBindableLiteral(v) ==
    /\ HasFreeCell
    /\ Return(Op("unwrapBindable", 0, FreeCell, v, "", 0),
              ConstructBindableDummy(Heap, FreeCell, v), 0)

\* k.createBinding(c, f)
CreateBinding(k, c, f) ==
    /\ CanIssue
    /\ Return(Op("createBinding", k, c, 0, f, NewUuid(Heap)),
              ComponentCreateBinding(Heap, k, c, FnAction(f)), k)

\* k.updateBinding(c); the record keeps the uuid of the registry entry found
UpdateBinding(k, c) ==
    Return(Op("updateBinding", k, c, 0, "", RegisteredBinding(Heap, k, c).uuid),
           ComponentUpdateBinding(Heap, MaxDepth, k, c), k)

\* k.removeBinding(c); the record keeps the uuid of the registry entry found
RemoveBindingOf(k, c) ==
    Return(Op("removeBinding", k, c, 0, "", RegisteredBinding(Heap, k, c).uuid),
           ComponentRemoveBinding(Heap, k, c), k)

\* The ValueObjects application code can pass: a constructed cell or a raw value.
ValueObjects ==
    {CellRef(c) : c \in Constructed} \cup {Literal(v) : v \in Values}
CanUnwrap(x) == x.isCell \/ HasFreeCell
UnwrappedCell(x) == IF x.isCell THEN x.ref ELSE FreeCell

\* k.setText(x), k.setValue(x), k.setHTML(x), k.setItems(x), k.setAttr(key, x),
\* k.toggleAttr(key, x), k.addToClassConditionally(name, x)
Wire(k, m, x) ==
    /\ CanIssue /\ CanUnwrap(x)
    /\ Return(Op(m, k, UnwrappedCell(x), 0, "", NewUuid(Heap)),
              ComponentSetter(Heap, MaxDepth, k, m, x), k)

\* k.setAccessibilityCurrentState('page', c)
SetAccessibilityCurrentState(k, c) ==
    /\ CanIssue
    /\ Return(Op("setAccessibilityCurrentState", k, c, 0, "", NewUuid(Heap)),
              ComponentSetAccessibilityCurrentState(Heap, k, c), k)

\* k.setVisibleIfMatch(a, b), b a cell
SetVisibleIfMatch(k, a, b) ==
    /\ Len(issued) + 2 <= MaxUuid /\ CanUnwrap(a)
    /\ Return([Op("setVisibleIfMatch", k, UnwrappedCell(a), 0, "",
                  NewUuid(Heap)) EXCEPT !.cell2 = b],
              ComponentSetVisibleIfMatch(Heap, MaxDepth, k, a, CellRef(b)), k)

\* k.createTightBinding(new ValueTBModel({data: c, component: k, ...}))
CreateTightBinding(k, c) ==
    /\ CanIssue
    /\ Return(Op("createTightBinding", k, c, 0, "", NewUuid(Heap)),
              ComponentCreateTightBinding(Heap, MaxDepth, k, c), k)

\* k.createSelectionBinding(new CheckSBModel({selection, component: k, ...})),
\* selection.selectedItems being c
CreateSelectionBinding(k, c) ==
    /\ CanIssue
    /\ Return(Op("createSelectionBinding", k, c, 0, "", NewUuid(Heap)),
              ComponentCreateSelectionBinding(Heap, MaxDepth, k, c), k)

\* The record of a call on the SelectionModel with arguments xs: it keeps
\* what was selected and who was subscribed when the call started.
SelectionOp(name, xs, f) ==
    [Op(name, 0, 0, 0, f, 0) EXCEPT !.items = xs,
                                    !.old = selectionModel.selection,
                                    !.subs = selectionModel.bindings]

\* selection.select(...xs)
Select(xs) ==
    Return(SelectionOp("select", xs, ""), SelectionSelect(Heap, xs), 0)

\* selection.deselect(...xs)
Deselect(xs) ==
    Return(SelectionOp("deselect", xs, ""), SelectionDeselect(Heap, xs), 0)

\* selection.clear()
Clear ==
    Return(SelectionOp("clear", <<>>, ""), SelectionClear(Heap), 0)

\* selection.subscribe(f)
Subscribe(f) ==
    Return(SelectionOp("subscribe", <<>>, f), StateSubscribe(Heap, f), 0)

\* selection.unsubscribe(f)
Unsubscribe(f) ==
    Return(SelectionOp("unsubscribe", <<>>, f), StateUnsubscribe(Heap, f), 0)

\* const selection = new DataSelection(), for models with isExclusive = excl
NewDataSelection(excl) ==
    /\ HasFreeCell
    /\ Return(Op("newDataSelection", 0, FreeCell, Flag(excl), "", 0),
              ConstructDataSelection(Heap, FreeCell, excl), 0)

\* model.setData(isSelected), model a ValueSBModel with ownValue own over the
\* selection c; the record keeps the array the call found
ModelSetData(c, own, isSelected) ==
    Return([Op("setData", 0, c, Flag(isSelected), "", 0) EXCEPT
                !.items = <<own>>, !.old = value[c]],
           SetData(Heap, MaxDepth, c, own, isExclusive[c], isSelected), 0)

\* The user types x into component k: the element's value becomes x and the
\* element dispatches 'input'.
InputEvent(k, x) ==
    Return(Op("input", k, 0, x, "", 0),
           DispatchInputFrom([Heap EXCEPT !.view[k]["value"] = x],
                             MaxDepth, k, 1), k)

\* unwrapValue(x); the record keeps the argument (cell, or 0 and the literal)
CallUnwrapValue(x) ==
    Return(Op("unwrapValue", 0, IF x.isCell THEN x.ref ELSE 0,
              IF x.isCell THEN 0 ELSE x.ref, "", 0),
           Heap, UnwrapValue(Heap, x))

\* unwrapBindable(x); the record keeps the argument (cell, or 0 and the literal)
CallUnwrapBindable(x) ==
    /\ CanUnwrap(x)
    /\ Return(Op("unwrapBindable", 0, IF x.isCell THEN x.ref ELSE 0,
                 IF x.isCell THEN 0 ELSE x.ref, "", 0),
              UnwrapBindable(Heap, x).h, UnwrapBindable(Heap, x).cell)

\* c.addBinding({uuid: new UUID(), action: a}), a one of the callbacks that
\* change the bindings of c
UserAddCallback(c, a) ==
    /\ CanIssue
    /\ Return(Op("addBinding", 0, c, 0, a.type, NewUuid(Heap)),
              AddBinding(Issue(Heap, "user", 0, c, a), c,
                         Binding(NewUuid(Heap), a)), 0)

\* The subscribing callbacks attached to c: each takes a new uuid when called.
SubscribingOn(c) ==
    {i \in 1..Len(bindings[c]) : bindings[c][i].val.type = "subscribe"}
CanFanOut(c) == Len(issued) + Cardinality(SubscribingOn(c)) <= MaxUuid

\* const c = new ComputedState({statesToBind: ups, initialValue: init,
\*                              compute: () => { t.value = ... }})
NewComputedStateInto(ups, init, t) ==
    /\ HasFreeCell /\ CanIssue
    /\ Return(Op("newComputedState", 0, FreeCell, init, "", 0),
              ConstructComputedStateInto(Heap, MaxDepth, FreeCell, ups, init, t),
              0)

\* Arrays of items that list no item twice.
DistinctArrays ==
    {a \in SeqsUpTo(Items, NumItems) : Len(a) = Cardinality({a[i] : i \in 1..Len(a)})}

\* k.createSelectionBinding(new CheckSBModel({component: k, ownValue: own,
\* selection, isExclusive: excl})), selection.selectedItems being c; a
\* component is given one model
WireSelection(k, c, own, excl) ==
    /\ CanIssue /\ sbModel[k] = NoModel
    /\ Return([Op("createSelectionBinding", k, c, Flag(excl), "", NewUuid(Heap))
                  EXCEPT !.items = <<own>>, !.old = value[c]],
              ComponentCreateSelectionBindingOfModel(
                  Heap, MaxDepth, k, SBModel(c, own, excl)), k)

\* model.setData(isSelected), model the CheckSBModel of component k; the
\* record keeps the array the call found
MemberSetData(k, isSelected) ==
    /\ sbModel[k] # NoModel
    /\ Return([Op("setData", k, sbModel[k].selection, Flag(isSelected), "", 0)
                  EXCEPT !.items = <<sbModel[k].ownValue>>,
                         !.old = value[sbModel[k].selection]],
              SetData(Heap, MaxDepth, sbModel[k].selection, sbModel[k].ownValue,
                      sbModel[k].isExclusive, isSelected), k)

\* The user clicks checkable component k: its checked property flips to x and
\* the element dispatches 'change'.
ChangeEvent(k, x) ==
    /\ view[k]["checked"] # Flag(x)
    /\ Return([Op("change", k, sbModel[k].selection, Flag(x), "", 0)
                  EXCEPT !.old = IF sbModel[k] = NoModel THEN <<>>
                                 ELSE value[sbModel[k].selection]],
              DispatchChangeFrom([Heap EXCEPT !.view[k]["checked"] = Flag(x)],
                                 MaxDepth, k, 1), k)

\* mousedown or touchstart on the view of item i (index.ts 1644-1649)
PressItem(i, ev) ==
    /\ Len(list.timers) < MaxTimers
    /\ Return([Op(ev, i, 0, i, "", 0) EXCEPT !.old = list.timers],
              [Heap EXCEPT !.list = StartDrag(@, i)], 0)

\* 200 ms after a startDrag its timer runs, unless it was cleared
DragStartTimerRuns ==
    /\ list.timers # <<>>
    /\ Return([Op("dragStartTimer", Head(list.timers).component, 0,
                   Head(list.timers).data, "", 0) EXCEPT !.old = list.timers],
              [Heap EXCEPT !.list = DragStartTimer(@)], 0)

\* mousemove or touchmove on the list over item j (index.ts 1587-1588)
MoveOver(j, ev) ==
    Return([Op(ev, 0, 0, j, "", 0) EXCEPT !.old = list.timers],
           [Heap EXCEPT !.list = HandleDragMove(@, j)], 0)

\* mouseup or touchend on document.body while stopDrag listens for it
ReleaseBody(ev) ==
    /\ list.listening
    /\ Return([Op(ev, 0, 0, 0, "", 0) EXCEPT !.old = list.timers],
              [Heap EXCEPT !.list = StopDrag(@)], 0)

\* The record of a call on the stage with depth d: it keeps the children
\* the call found.
StageOp(name, d) ==
    [Op(name, 0, 0, d, "", 0) EXCEPT !.old = stage.children]
RoomForScene == Len(stage.children) + Len(stage.pending) < MaxScenes

\* stage.addScene(Scene, data)
StageAddScene ==
    /\ RoomForScene
    /\ Return([StageOp("addScene", GetDepth(stage)) EXCEPT
                  !.uuid = NewSceneId(stage)],
              [Heap EXCEPT !.stage = AddScene(@, GetDepth(@))], 0)

\* stage.goBackTo(d), also scene.close() of a scene of depth d + 1
StageGoBackTo(d) ==
    Return(StageOp("goBackTo", d), [Heap EXCEPT !.stage = GoBackTo(@, d, TRUE)], 0)

\* A link of scene n is selected: linkSelection.selectedItems.value = [uuid]
SelectLink(n) ==
    /\ n \in 1..Len(stage.children)
    /\ Return(StageOp("selectLink", n),
              [Heap EXCEPT !.stage.children[n].linked = TRUE], 0)

\* stage.replaceScene(Scene, data, d) is called, also by SceneLink's
\* openScene of a scene of depth d - 1 (index.ts 2302-2308): it runs up to its
\* await
ReplaceSceneCalled(d) ==
    /\ d <= Len(stage.children)
    /\ Len(stage.pending) < MaxPending
    /\ Len(GoBackTo(stage, d - 1, FALSE).children) + Len(stage.pending)
          < MaxScenes
    /\ Return(StageOp("replaceScene", d),
              [Heap EXCEPT !.stage = ReplaceSceneUntilAwait(@, d)], 0)

\* The replaceScene call suspended longest resumes and resolves
ReplaceSceneResolves ==
    /\ stage.pending # <<>>
    /\ Return([StageOp("replaceSceneResolved", Head(stage.pending)) EXCEPT
                  !.uuid = NewSceneId(stage)],
              [Heap EXCEPT !.stage = ReplaceSceneAfterAwait(@)], 0)

\* The record of a call on State s of the older version.
ProxiedOp(name, s, v) ==
    [Op(name, 0, 0, v, s, 0) EXCEPT !.old = <<proxied.value[s]>>,
                                    !.items = proxied.bindings[s]]
ProxyCreated == proxied.cfg # ""

\* const proxyState = s.createProxy(cfg)
CreateProxy(cfg) ==
    /\ ~ProxyCreated
    /\ Return(ProxiedOp("createProxy", "this", 0), StateCreateProxy(Heap, cfg), 0)

\* s.subscribe(f) or proxyState.subscribe(f)
ProxiedUserSubscribe(s) ==
    /\ s = "proxyState" => ProxyCreated
    /\ Return(ProxiedOp("subscribeProxied", s, 0),
              ProxiedSubscribe(Heap, s, "f"), 0)

\* s.value = v or proxyState.value = v
ProxiedAssign(s, v) ==
    /\ s = "proxyState" => ProxyCreated
    /\ Return(ProxiedOp("assignProxied", s, v),
              ProxiedSetValue(Heap, MaxDepth, s, v), 0)

Init ==
    /\ kind = [c \in Cells |-> "none"]
    /\ value = [c \in Cells |-> 0]
    /\ bindings = [c \in Cells |-> <<>>]
    /\ action = [c \in Cells |-> Entry(0, NoAction)]
    /\ statesToBind = [c \in Cells |-> <<>>]
    /\ original = [c \in Cells |-> 0]
    /\ convert = [c \in Cells |-> ""]
    /\ registry = [k \in AllComponents |-> <<>>]
    /\ view = [k \in AllComponents |-> [p \in Props |-> Unset]]
    /\ listeners = [k \in AllComponents |-> <<>>]
    /\ isExclusive = [c \in Cells |-> FALSE]
    /\ selectionModel = ConstructSelectionModel
    /\ sbModel = [k \in AllComponents |-> NoModel]
    /\ list = ConstructList
    /\ stage = ConstructStage
    /\ proxied = ConstructProxied
    /\ issued = <<>>
    /\ lastOp = NoOp
    /\ prevOp = NoOp

\* The heap with room for the cells cs and nothing constructed, and the
\* program starting with heap h.
BlankHeap(cs) ==
    [kind |-> [c \in cs |-> "none"], value |-> [c \in cs |-> 0],
     bindings |-> [c \in cs |-> <<>>],
     action |-> [c \in cs |-> Entry(0, NoAction)],
     statesToBind |-> [c \in cs |-> <<>>], original |-> [c \in cs |-> 0],
     convert |-> [c \in cs |-> ""],
     registry |-> [k \in AllComponents |-> <<>>],
     view |-> [k \in AllComponents |-> [p \in Props |-> Unset]],
     listeners |-> [k \in AllComponents |-> <<>>],
     isExclusive |-> [c \in cs |-> FALSE],
     selectionModel |-> ConstructSelectionModel,
     sbModel |-> [k \in AllComponents |-> NoModel], list |-> ConstructList,
     stage |-> ConstructStage, proxied |-> ConstructProxied,
     issued |-> <<>>, trace |-> <<>>, overflow |-> FALSE]
StartsWith(h) ==
    /\ kind = h.kind /\ value = h.value
    /\ bindings = [c \in DOMAIN h.bindings |-> MapCompact(h.bindings[c])]
    /\ action = h.action /\ statesToBind = h.statesToBind
    /\ original = h.original /\ convert = h.convert
    /\ registry = h.registry /\ view = h.view /\ listeners = h.listeners
    /\ isExclusive = h.isExclusive /\ selectionModel = h.selectionModel
    /\ sbModel = h.sbModel /\ list = h.list /\ stage = h.stage
    /\ proxied = h.proxied
    /\ issued = h.issued
    /\ lastOp = NoOp /\ prevOp = NoOp

\* The program after
\*   const a = new State(a0)
\*   const b = new ComputedState({statesToBind: [a], initialValue: i, compute})
\*   const c = new ComputedState({statesToBind: [a], initialValue: i, compute})
\*   const d = new ComputedState({statesToBind: [b, c], initialValue: i, compute})
\*   d.addBinding({uuid: new UUID(), action: f})
\* with every compute function the one of Recompute.
DiamondHeap(a0, i) ==
    LET h1 == ConstructState(BlankHeap(1..DiamondCells), 1, a0)
        h2 == ConstructComputedState(h1, MaxDepth, 2, <<1>>, i)
        h3 == ConstructComputedState(h2, MaxDepth, 3, <<1>>, i)
        h4 == ConstructComputedState(h3, MaxDepth, 4, <<2, 3>>, i)
    IN  AddBinding(Issue(h4, "user", 0, 4, FnAction("f")), 4,
                   Binding(NewUuid(h4), FnAction("f")))
InitDiamond == \E a0 \in Values, i \in Values : StartsWith(DiamondHeap(a0, i))

\* Application code working on State cells: it constructs them, attaches and
\* detaches its own bindings, assigns and triggers.
CellNext ==
    \/ \E v \in Values : NewState(v)
    \/ \E c \in FullCells : UserAddBinding(c)
    \/ \E c \in FullCells, u \in 1..Len(issued) : UserRemoveBinding(c, u)
    \/ \E c \in FullCells, v \in Values : Assign(c, v)
    \/ \E c \in FullCells : UserTriggerAll(c)

Next == CellNext

Spec == Init /\ [][Next]_vars

\* The same with ComputedStates over the cells.
NextComputed ==
    \/ CellNext
    \/ \E ups \in SeqsUpTo(FullCells, MaxUpstream), init \in Values :
            NewComputedState(ups, init)

SpecComputed == Init /\ [][NextComputed]_vars

\* The same with ProxyStates over the cells.
NextProxy ==
    \/ CellNext
    \/ \E o \in FullCells, cv \in ConvertKinds : NewProxyState(o, cv)

SpecProxy == Init /\ [][NextProxy]_vars

\* ================================================================ claims
\* The "call" events of a trace, and those made on the uuids of a list.
Calls(tr) == SelectSeq(tr, LAMBDA e : e.e = "call")
Range(q) == {q[i] : i \in 1..Len(q)}
CallsOn(tr, us) == SelectSeq(tr, LAMBDA e : e.e = "call" /\ e.id \in Range(us))
Ids(tr) == [i \in 1..Len(tr) |-> tr[i].id]
Args(tr) == [i \in 1..Len(tr) |-> tr[i].arg]
EventsOf(tr, name, id) == SelectSeq(tr, LAMBDA e : e.e = name /\ e.id = id)
Constant(n, v) == [i \in 1..n |-> v]

\* An assignment through BindableObject's setter (ProxyState overrides it).
PlainAssign(o) == o.op = "assign" /\ kind[o.cell] # "ProxyState"

ComputedCells == {c \in Cells : kind[c] = "ComputedState"}

\* C3: right after its construction and right after an assignment to one of
\* its upstream cells, a ComputedState holds what its compute function yields
\* for the current upstream values, whatever the number of upstream cells.
C3_ComputedValueIsRecomputed ==
    \A c \in ComputedCells :
        (\/ lastOp.op = "newComputedState" /\ lastOp.cell = c
         \/ lastOp.op = "assign" /\ lastOp.cell \in Range(statesToBind[c]))
        => value[c] = Recompute(Heap, c)

\* The proxies an assignment writes: the cell assigned and the proxies of the
\* chain of originals below it.
ProxyCells == {c \in Cells : kind[c] = "ProxyState"}
RECURSIVE ProxyChain(_)
ProxyChain(c) ==
    IF kind[c] = "ProxyState" THEN {c} \cup ProxyChain(original[c]) ELSE {}
Written == IF lastOp.op = "assign" THEN ProxyChain(lastOp.cell) ELSE {}

\* C4: a write p.value = x on a ProxyState calls convertToOriginal exactly
\* once, with x, and assigns the original exactly once, to
\* convertToOriginal(x); the propagation back into the proxy does not call
\* convertToOriginal again.  Proxies below p in a chain of proxies are written
\* once each by the same rule, and no other call converts to an original.
C4_ProxyWriteConvertsOnce ==
    /\ \A p \in ProxyCells :
          Len(EventsOf(lastOp.trace, "convertToOriginal", p))
              = IF p \in Written THEN 1 ELSE 0
    /\ (lastOp.op = "assign" /\ lastOp.cell \in ProxyCells) =>
          /\ Args(EventsOf(lastOp.trace, "convertToOriginal", lastOp.cell))
                = <<lastOp.val>>
          /\ Args(EventsOf(lastOp.trace, "set", original[lastOp.cell]))
                = <<ConvertToOriginal(convert[lastOp.cell], lastOp.val)>>

C4_Witness ==
    /\ lastOp.op = "assign" /\ lastOp.cell \in ProxyCells
    /\ Len(EventsOf(lastOp.trace, "convertFromOriginal", lastOp.cell)) = 1
    /\ bindings[lastOp.cell] # <<>>

\* C5: after the construction of a ProxyState p and after every assignment to
\* its original, p holds convertFromOriginal(original.value) and p's own
\* subscribers have been called once each with that value, while
\* convertToOriginal was not called and p did not assign the original.
C5_UpstreamUpdateReachesProxy ==
    \A p \in ProxyCells :
        LET made == lastOp.op = "newProxyState" /\ lastOp.cell = p
            fed == lastOp.op = "assign" /\ lastOp.cell = original[p]
            own == MapKeys(bindings[p])
        IN  (made \/ fed) =>
              /\ value[p] = ConvertFromOriginal(convert[p], value[original[p]])
              /\ Ids(CallsOn(lastOp.trace, own)) = own
              /\ Args(CallsOn(lastOp.trace, own)) = Constant(Len(own), value[p])
              /\ EventsOf(lastOp.trace, "convertToOriginal", p) = <<>>
              /\ Len(EventsOf(lastOp.trace, "set", original[p]))
                    = IF fed THEN 1 ELSE 0

C5_Witness ==
    \E p \in ProxyCells :
        /\ lastOp.op = "assign" /\ lastOp.cell = original[p]
        /\ bindings[p] # <<>>
        /\ value[p] # 0

\* Components binding application callbacks to State cells and to synthesized
\* single-slot cells through their registry.
NextRegistry ==
    \/ \E v \in Values : NewState(v)
    \/ \E v \in Values : UnwrapBindableLiteral(v)
    \/ \E k \in Components, c \in Constructed, f \in Fns : CreateBinding(k, c, f)
    \/ \E k \in Components, c \in Constructed : UpdateBinding(k, c)
    \/ \E k \in Components, c \in Constructed : RemoveBindingOf(k, c)
    \/ \E c \in Constructed : UserAddBinding(c)
    \/ \E c \in Constructed, v \in Values : Assign(c, v)
    \/ \E c \in Constructed : UserTriggerAll(c)

SpecRegistry == Init /\ [][NextRegistry]_vars

\* Components wired to cells by their declarative methods.
NextWiring ==
    \/ \E v \in Values : NewState(v)
    \/ \E k \in Components, m \in Setters, x \in ValueObjects : Wire(k, m, x)
    \/ \E k \in Components, c \in FullCells : SetAccessibilityCurrentState(k, c)
    \/ \E k \in Components, a \in ValueObjects, b \in FullCells :
            SetVisibleIfMatch(k, a, b)
    \/ \E k \in Components, c \in FullCells : CreateTightBinding(k, c)
    \/ \E k \in Components, c \in FullCells : CreateSelectionBinding(k, c)
    \/ \E c \in FullCells, v \in Values : Assign(c, v)

SpecWiring == Init /\ [][NextWiring]_vars

\* The entries component k keeps for cell c, and the uuids k was issued for c.
RegistryEntries(k, c) ==
    {i \in 1..Len(registry[k]) : registry[k][i].key = c}
IssuedTo(k, c) ==
    {u \in 1..Len(issued) :
        issued[u].by = "component" /\ issued[u].id = k /\ issued[u].cell = c}
ComponentOp(o, name) == o.op = name /\ o.comp # 0

\* C6: when a component has called createBinding for the same cell twice, its
\* registry holds exactly one entry for the cell, and an updateBinding that
\* follows the second createBinding calls the second callback exactly once and
\* calls nothing else.
C6_SecondBindingReplacesRegistryEntry ==
    /\ (ComponentOp(lastOp, "createBinding")
          /\ Cardinality(IssuedTo(lastOp.comp, lastOp.cell)) >= 2) =>
         /\ Cardinality(RegistryEntries(lastOp.comp, lastOp.cell)) = 1
         /\ RegisteredBinding(Heap, lastOp.comp, lastOp.cell)
               = Binding(lastOp.uuid, FnAction(lastOp.fn))
    /\ (ComponentOp(lastOp, "updateBinding")
          /\ ComponentOp(prevOp, "createBinding")
          /\ Cardinality(IssuedTo(lastOp.comp, lastOp.cell)) >= 2) =>
         /\ Cardinality(RegistryEntries(lastOp.comp, lastOp.cell)) = 1
         /\ Calls(lastOp.trace)
               = <<Ev("call", prevOp.uuid, FnAction(prevOp.fn),
                      value[lastOp.cell])>>

C6_Witness ==
    /\ ComponentOp(lastOp, "updateBinding")
    /\ ComponentOp(prevOp, "createBinding")
    /\ kind[lastOp.cell] = "State"
    /\ \E u \in IssuedTo(lastOp.comp, lastOp.cell) :
          u # prevOp.uuid /\ issued[u].fn # FnAction(prevOp.fn)

\* C7: after k.removeBinding(c) for a cell k has bound, k's registry has no
\* entry for c and the removed binding is no longer attached to c, for State
\* cells and for synthesized single-slot cells alike.
C7_RemoveBindingDetaches ==
    (ComponentOp(lastOp, "removeBinding") /\ lastOp.uuid # 0) =>
        /\ RegistryEntries(lastOp.comp, lastOp.cell) = {}
        /\ lastOp.uuid \notin Range(Subscribers(Heap, lastOp.cell))

\* The same for State cells only.
RemoveBindingDetachesFromState ==
    (ComponentOp(lastOp, "removeBinding") /\ lastOp.uuid # 0
       /\ kind[lastOp.cell] \in StateKinds) =>
        /\ RegistryEntries(lastOp.comp, lastOp.cell) = {}
        /\ lastOp.uuid \notin Range(Subscribers(Heap, lastOp.cell))

\* C8: updateBinding(c) or removeBinding(c) on a component with no registry
\* entry for c reports one diagnostic, calls no callback, changes neither the
\* registry nor any cell, and returns the component.
C8_UnknownBindableIsNoOp ==
    [][((ComponentOp(lastOp', "updateBinding")
            \/ ComponentOp(lastOp', "removeBinding"))
         /\ lastOp'.uuid = 0) =>
           /\ lastOp'.trace = <<Ev("error", lastOp'.cell, NoAction, 0)>>
           /\ lastOp'.ret = lastOp'.comp
           /\ registry' = registry
           /\ bindings' = bindings /\ action' = action /\ value' = value
           /\ view' = view /\ issued' = issued]_vars

C8_Witness ==
    /\ ComponentOp(lastOp, "updateBinding") /\ lastOp.uuid = 0
    /\ lastOp.subs # <<>>

\* The view of the component reflects the cell of the wiring call o: calling
\* the callback again now would change nothing.
WiringOps ==
    Setters \cup {"setAccessibilityCurrentState", "setVisibleIfMatch",
                  "createTightBinding", "createSelectionBinding"}
WiredCells(o) ==
    IF o.op = "setVisibleIfMatch" THEN <<o.cell, o.cell2>> ELSE <<o.cell>>
ViewReflects(o) ==
    ViewCallback(Heap, ViewAction(o.comp, o.op, WiredCells(o)),
                 value[o.cell]).view = view

\* C9: when a wiring method returns, its callback has been called and the
\* component's view already shows what the callback writes for the current
\* value of the cell: calling the callback again would change nothing.
C9_WiringReflectsCurrentValue ==
    lastOp.op \in WiringOps =>
        /\ Calls(lastOp.trace) # <<>>
        /\ ViewReflects(lastOp)

\* The same for the wiring methods other than setAccessibilityCurrentState.
WiringWithUpdateReflectsCurrentValue ==
    (lastOp.op \in WiringOps \ {"setAccessibilityCurrentState"}) =>
        /\ Calls(lastOp.trace) # <<>>
        /\ ViewReflects(lastOp)

\* C10: an updateBinding that follows the component's createBinding for the
\* cell calls the callback just registered exactly once, with the cell's
\* current value, and calls no other subscriber of the cell.
C10_UpdateCallsOnlyOwnCallback ==
    (ComponentOp(lastOp, "updateBinding")
       /\ ComponentOp(prevOp, "createBinding")) =>
        Calls(lastOp.trace)
          = <<Ev("call", prevOp.uuid, FnAction(prevOp.fn), value[lastOp.cell])>>

C10_Witness ==
    /\ ComponentOp(lastOp, "updateBinding")
    /\ ComponentOp(prevOp, "createBinding")
    /\ Len(lastOp.subs) >= 2
    /\ value[lastOp.cell] # 0

\* Application code working on one SelectionModel.
NextSelection ==
    \/ \E xs \in SeqsUpTo(Items, MaxArgs) : Select(xs)
    \/ \E xs \in SeqsUpTo(Items, MaxArgs) : Deselect(xs)
    \/ Clear
    \/ \E f \in Fns : Subscribe(f)
    \/ \E f \in Fns : Unsubscribe(f)

SpecSelection == Init /\ [][NextSelection]_vars

\* What getItems() returns, as a set, and whether it lists an item twice.
SelectedItems == Range(GetItems(Heap).items)
NoDuplicates(q) == Len(q) = Cardinality(Range(q))

\* C11: getItems() never lists an item twice, and as a set it is what the
\* calls so far make of the empty set: select adds the items it is given,
\* deselect removes them, clear removes everything.
C11_GetItemsFollowsSelectDeselectClear ==
    [][/\ NoDuplicates(GetItems(Heap).items)'
       /\ lastOp'.op = "select" =>
             SelectedItems' = SelectedItems \cup Range(lastOp'.items)
       /\ lastOp'.op = "deselect" =>
             SelectedItems' = SelectedItems \ Range(lastOp'.items)
       /\ lastOp'.op = "clear" => SelectedItems' = {}
       /\ lastOp'.op \notin SelectionOps => SelectedItems' = SelectedItems]_vars

C11_Witness ==
    /\ lastOp.op = "deselect" /\ Len(lastOp.old) = 2
    /\ lastOp.items = <<lastOp.old[1]>>
    /\ SelectedItems = {lastOp.old[2]}

\* The notifications of a trace.
Notifications(tr) == SelectSeq(tr, LAMBDA ev : ev.e = "notify")

\* C12: a select, deselect or clear notifies each subscriber exactly once, in
\* subscription order, with the array of the items now selected.
C12_EachCallNotifiesOnce ==
    lastOp.op \in SelectionOps =>
        /\ Len(Notifications(lastOp.trace)) = Len(lastOp.subs)
        /\ \A i \in 1..Len(lastOp.subs) :
              /\ Notifications(lastOp.trace)[i].fn = FnAction(lastOp.subs[i])
              /\ Notifications(lastOp.trace)[i].arg = selectionModel.selection
        /\ selectionModel.value.items = selectionModel.selection

C12_Witness ==
    /\ lastOp.op = "select" /\ Len(lastOp.items) = 2
    /\ Range(lastOp.items) \subseteq Range(lastOp.old)
    /\ Len(lastOp.subs) = 2

\* Items of a group selecting and deselecting themselves in a shared
\* DataSelection.
NextSelectionBinding ==
    \/ \E excl \in BOOLEAN : NewDataSelection(excl)
    \/ \E c \in FullCells, own \in Items, isSelected \in BOOLEAN :
            ModelSetData(c, own, isSelected)

SpecSelectionBinding == Init /\ [][NextSelectionBinding]_vars

\* C13: in an exclusive group, after setData(true) on the model of an item
\* the shared array is exactly [that item], whatever was selected before.
C13_ExclusiveSelectReplaces ==
    (lastOp.op = "setData" /\ lastOp.val = 1 /\ isExclusive[lastOp.cell]) =>
        value[lastOp.cell] = lastOp.items

C13_Witness ==
    /\ lastOp.op = "setData" /\ lastOp.val = 1 /\ isExclusive[lastOp.cell]
    /\ Len(lastOp.old) = 1 /\ lastOp.old # lastOp.items

\* Components bound two-way to State cells: the cells are assigned by
\* application code and by the user typing into the components.
NextTightBinding ==
    \/ \E v \in Values : NewState(v)
    \/ \E k \in Components, c \in FullCells : CreateTightBinding(k, c)
    \/ \E c \in FullCells, v \in Values : Assign(c, v)
    \/ \E k \in Components, x \in Values : InputEvent(k, x)

SpecTightBinding == Init /\ [][NextTightBinding]_vars

\* The uuids of the tight bindings attached to cell c, in calling order, and
\* the components they write to; the cells the listeners of component k
\* assign, in listener order.
TightBindingsOn(c) ==
    SelectSeq(Subscribers(Heap, c),
              LAMBDA u : issued[u].fn.fn = "createTightBinding")
TightlyBoundTo(c) == {issued[u].id : u \in Range(TightBindingsOn(c))}
ListenerCells(k) == [i \in 1..Len(listeners[k]) |-> listeners[k][i].cell]
SetCells(tr) ==
    LET sets == SelectSeq(tr, LAMBDA ev : ev.e = "set")
    IN  [i \in 1..Len(sets) |-> sets[i].id]

\* C14: createTightBinding calls the view setter once, with the cell's
\* value; an assignment to the cell calls the view setter of every tight
\* binding of the cell once with the value assigned; an input event on a
\* component assigns the view's value to the cell of each of its tight
\* bindings.  After each of the three the views bound to the cells concerned
\* show the cell's value.
C14_TightBindingKeepsViewAndCellInSync ==
    /\ lastOp.op = "createTightBinding" =>
          /\ Calls(lastOp.trace)
                = <<Ev("call", lastOp.uuid,
                       ViewAction(lastOp.comp, "createTightBinding",
                                  <<lastOp.cell>>),
                       value[lastOp.cell])>>
          /\ view[lastOp.comp]["value"] = value[lastOp.cell]
    /\ lastOp.op = "assign" =>
          /\ Ids(Calls(lastOp.trace)) = lastOp.subs
          /\ \A i \in 1..Len(Calls(lastOp.trace)) :
                Calls(lastOp.trace)[i].arg = lastOp.val
          /\ \A k \in TightlyBoundTo(lastOp.cell) :
                view[k]["value"] = lastOp.val
    /\ lastOp.op = "input" =>
          /\ SetCells(lastOp.trace) = ListenerCells(lastOp.comp)
          /\ \A c \in Range(ListenerCells(lastOp.comp)) :
                /\ value[c] = lastOp.val
                /\ \A k \in TightlyBoundTo(c) : view[k]["value"] = lastOp.val

C14_Witness ==
    /\ lastOp.op = "input" /\ lastOp.val # 0
    /\ Len(ListenerCells(lastOp.comp)) = 1
    /\ Calls(lastOp.trace) # <<>>

\* The bindings attached to cell c.
Attached(c) == Range(Subscribers(Heap, c))

\* C15: a binding attached to a cell stays attached over every call other
\* than the removeBinding that names it, for State cells and for synthesized
\* single-slot cells alike.
C15_BindingStaysUntilRemoved ==
    [][\A c \in Cells : \A u \in Attached(c) :
          ~(lastOp'.op = "removeBinding" /\ lastOp'.uuid = u)
              => u \in Attached(c)']_vars

\* The same for State cells only.
BindingStaysOnStateUntilRemoved ==
    [][\A c \in FullCells : \A u \in Attached(c) :
          ~(lastOp'.op = "removeBinding" /\ lastOp'.uuid = u)
              => u \in Attached(c)']_vars

\* C16: right after c.value = v has returned, c.value is v, for every class
\* of cell.
C16_ValueIsLastAssigned ==
    (lastOp.op = "assign" /\ ~lastOp.overflow) =>
        value[lastOp.cell] = lastOp.val

\* The same for the cells that are no ProxyState and for the ProxyStates whose
\* conversions, and those of the proxies below them, are inverses of each
\* other.
ValueIsLastAssignedUnlessLossyProxy ==
    (/\ lastOp.op = "assign" /\ ~lastOp.overflow
     /\ \A q \in ProxyChain(lastOp.cell) : convert[q] = "shift") =>
        value[lastOp.cell] = lastOp.val

\* Application code unwrapping cells of every class and raw values, and
\* using the cells it gets.
NextUnwrap ==
    \/ \E v \in Values : NewState(v)
    \/ \E ups \in SeqsUpTo(FullCells, 1), init \in Values :
            NewComputedState(ups, init)
    \/ \E o \in FullCells, cv \in ConvertKinds : NewProxyState(o, cv)
    \/ \E x \in ValueObjects : CallUnwrapValue(x)
    \/ \E x \in ValueObjects : CallUnwrapBindable(x)
    \/ \E c \in Constructed : UserAddBinding(c)
    \/ \E c \in Constructed, v \in Values : Assign(c, v)
    \/ \E c \in Constructed : UserTriggerAll(c)

SpecUnwrap == Init /\ [][NextUnwrap]_vars

\* C17: unwrapValue(x) returns the current value of x when x is a cell, of
\* whatever class, and x when x is a raw value.
C17_UnwrapValueReadsCellOrReturnsLiteral ==
    lastOp.op = "unwrapValue" =>
        lastOp.ret = IF lastOp.cell # 0 THEN value[lastOp.cell] ELSE lastOp.val

C17_Witness ==
    /\ lastOp.op = "unwrapValue" /\ lastOp.cell # 0
    /\ kind[lastOp.cell] = "ProxyState"
    /\ value[lastOp.cell] # value[original[lastOp.cell]]

\* The binding attached to cell c last.
IssuedFor(c) == {u \in 1..Len(issued) : issued[u].cell = c}
LastIssuedFor(c) == CHOOSE u \in IssuedFor(c) : \A w \in IssuedFor(c) : w <= u

\* C18: unwrapBindable(x) returns x and changes nothing when x is a cell;
\* for a raw value it returns a cell that did not exist before, holds the
\* value and has no subscriber.  An assignment to such a cell or a
\* triggerAll on it calls the binding attached last, once, and no other.
C18_UnwrapBindableKeepsCellOrMakesSingleSlot ==
    [][/\ (lastOp'.op = "unwrapBindable" /\ lastOp'.cell # 0) =>
             /\ lastOp'.ret = lastOp'.cell
             /\ kind' = kind /\ value' = value /\ action' = action
             /\ bindings' = bindings
       /\ (lastOp'.op = "unwrapBindable" /\ lastOp'.cell = 0) =>
             /\ kind[lastOp'.ret] = "none"
             /\ kind'[lastOp'.ret] = "BindableDummy"
             /\ value'[lastOp'.ret] = lastOp'.val
             /\ action'[lastOp'.ret].key = 0
             /\ \A c \in Cells \ {lastOp'.ret} :
                   kind'[c] = kind[c] /\ value'[c] = value[c]
       /\ (lastOp'.op \in {"assign", "triggerAll"}
             /\ kind[lastOp'.cell] = "BindableDummy") =>
             Calls(lastOp'.trace) =
                 IF IssuedFor(lastOp'.cell) = {} THEN <<>>
                 ELSE <<Ev("call", LastIssuedFor(lastOp'.cell),
                           issued[LastIssuedFor(lastOp'.cell)].fn,
                           value'[lastOp'.cell])>>]_vars

C18_Witness ==
    /\ lastOp.op = "assign" /\ kind[lastOp.cell] = "BindableDummy"
    /\ Cardinality(IssuedFor(lastOp.cell)) >= 2
    /\ Calls(lastOp.trace) # <<>>

\* The calls of the compute function of ComputedState c in a trace.
ComputeCalls(tr, c) ==
    SelectSeq(tr, LAMBDA ev : ev.e = "call" /\ ev.fn = ComputeAction(c))

\* C19: the construction of a ComputedState attaches its binding to every
\* upstream cell and calls the compute function exactly once, whatever the
\* number of upstream cells.
C19_ConstructionRecomputesOnce ==
    lastOp.op = "newComputedState" =>
        /\ \A i \in 1..Len(statesToBind[lastOp.cell]) :
              \E u \in Attached(statesToBind[lastOp.cell][i]) :
                  issued[u].fn = ComputeAction(lastOp.cell)
        /\ Len(ComputeCalls(lastOp.trace, lastOp.cell)) = 1

\* What the constructor does: one call of the compute function for each
\* upstream cell listed.
ConstructionRecomputesOncePerUpstream ==
    lastOp.op = "newComputedState" =>
        /\ \A i \in 1..Len(statesToBind[lastOp.cell]) :
              \E u \in Attached(statesToBind[lastOp.cell][i]) :
                  issued[u].fn = ComputeAction(lastOp.cell)
        /\ Len(ComputeCalls(lastOp.trace, lastOp.cell))
              = Len(statesToBind[lastOp.cell])

\* Application code whose callbacks attach and detach bindings of the cell
\* that is calling them.
NextFanOut ==
    \/ \E v \in Values : NewState(v)
    \/ \E c \in FullCells : UserAddBinding(c)
    \/ \E c \in FullCells : UserAddCallback(c, SubscribingAction(c))
    \/ \E c \in FullCells, u \in 1..MaxUuid :
            UserAddCallback(c, UnsubscribingAction(c, u))
    \/ \E c \in FullCells, v \in Values : CanFanOut(c) /\ Assign(c, v)
    \/ \E c \in FullCells : CanFanOut(c) /\ UserTriggerAll(c)

SpecFanOut == Init /\ [][NextFanOut]_vars

FanOut(o) == o.op \in {"assign", "triggerAll"} /\ ~o.overflow
TypesCalled(tr) == {Calls(tr)[i].fn.type : i \in 1..Len(Calls(tr))}

\* C20: a fan-out calls the subscribers the cell had when the fan-out
\* started, each once and in order: not the ones a callback attaches while
\* it runs, and also the ones a callback detaches while it runs.
C20_FanOutCallsSubscribersAtStart ==
    FanOut(lastOp) => Ids(Calls(lastOp.trace)) = lastOp.subs

\* What the fan-out does: it calls the subscribers at its start unless a
\* callback has detached them before their turn, and after them the
\* subscribers that callbacks have attached meanwhile.
FanOutSkipsNoneWithoutRemoval ==
    (FanOut(lastOp) /\ "unsubscribe" \notin TypesCalled(lastOp.trace)) =>
        \A u \in Range(lastOp.subs) : u \in Range(Ids(Calls(lastOp.trace)))
FanOutAddsNoneWithoutAddition ==
    (FanOut(lastOp) /\ "subscribe" \notin TypesCalled(lastOp.trace)) =>
        \A u \in Range(Ids(Calls(lastOp.trace))) : u \in Range(lastOp.subs)
FanOutFollowsLiveMap ==
    FanOut(lastOp) =>
        /\ \A u \in Attached(lastOp.cell) : u \in Range(Ids(Calls(lastOp.trace)))
        /\ NoDuplicates(Ids(Calls(lastOp.trace)))

\* Application code whose compute functions and callbacks assign cells: the
\* dependency graph it builds may have cycles.
NextCycle ==
    \/ \E v \in Values : NewState(v)
    \/ \E ups \in SeqsUpTo(FullCells, 1), init \in Values :
            NewComputedState(ups, init)
    \/ \E ups \in SeqsUpTo(FullCells, 1), init \in Values, t \in FullCells :
            NewComputedStateInto(ups, init, t)
    \/ \E c \in FullCells, t \in FullCells :
            UserAddCallback(c, AssigningAction(t))
    \/ \E c \in FullCells : UserAddBinding(c)
    \/ \E c \in FullCells, v \in Values : Assign(c, v)

SpecCycle == Init /\ [][NextCycle]_vars

\* The cell an action assigns (0: none), the cells a fan-out of c assigns, and
\* the cells an assignment to c reaches.
AssignedBy(a) ==
    CASE a.type = "compute" -> a.self
      [] a.type = "computeInto" -> a.cells[1]
      [] a.type = "assign" -> a.self
      [] OTHER -> 0
Dependents(c) ==
    {AssignedBy(bindings[c][i].val) : i \in 1..Len(bindings[c])} \ {0}
RECURSIVE ReachedIn(_, _)
ReachedIn(S, n) ==
    IF n = 0 THEN S
    ELSE ReachedIn(S \cup UNION {Dependents(c) : c \in S}, n - 1)
ReachedFrom(c) == ReachedIn(Dependents(c), MaxCells)
OnCycle(c) == c \in ReachedFrom(c)
ReachesCycle(c) == OnCycle(c) \/ \E x \in ReachedFrom(c) : OnCycle(x)

\* C21: an assignment to a cell that lies on a cycle of the dependency graph
\* returns after a bounded number of recomputations: it does not exhaust the
\* call stack.
C21_AssignOnCycleTerminates ==
    (lastOp.op = "assign" /\ OnCycle(lastOp.cell)) => ~lastOp.overflow

\* What the code does: an assignment runs to its end exactly when no cycle
\* can be reached from the cell.
AssignTerminatesUnlessCycle ==
    lastOp.op = "assign" => (lastOp.overflow <=> ReachesCycle(lastOp.cell))

\* The binding component k built for cell c last.
LastIssuedTo(k, c) ==
    CHOOSE u \in IssuedTo(k, c) : \A w \in IssuedTo(k, c) : w <= u

\* C22: a createBinding of a component on a full cell attaches the new
\* binding and detaches none, also when the component has bound the cell
\* before; removeBinding detaches the binding the component built for the cell
\* last and no other; an assignment to the cell calls every binding attached,
\* the ones the registry no longer knows included.
C22_StaleBindingStaysOnCell ==
    [][\A c \in FullCells : lastOp'.cell = c =>
       /\ ComponentOp(lastOp', "createBinding") =>
             Subscribers(Heap, c)' = Append(Subscribers(Heap, c), lastOp'.uuid)
       /\ (ComponentOp(lastOp', "removeBinding") /\ lastOp'.uuid # 0) =>
             /\ lastOp'.uuid = LastIssuedTo(lastOp'.comp, c)
             /\ Subscribers(Heap, c)'
                   = SelectSeq(Subscribers(Heap, c),
                               LAMBDA u : u # lastOp'.uuid)
       /\ lastOp'.op = "assign" =>
             /\ Ids(Calls(lastOp'.trace)) = Subscribers(Heap, c)
             /\ \A i \in 1..Len(Calls(lastOp'.trace)) :
                   /\ Calls(lastOp'.trace)[i].fn
                         = issued[Calls(lastOp'.trace)[i].id].fn
                   /\ Calls(lastOp'.trace)[i].arg = lastOp'.val]_vars

C22_Witness ==
    /\ lastOp.op = "assign" /\ kind[lastOp.cell] = "State"
    /\ \E k \in Components :
          /\ Cardinality(IssuedTo(k, lastOp.cell)) = 2
          /\ RegistryEntries(k, lastOp.cell) = {}
          /\ \E u \in IssuedTo(k, lastOp.cell) :
                /\ u # LastIssuedTo(k, lastOp.cell)
                /\ Ids(Calls(lastOp.trace)) = <<u>>

\* Checkable components joined into a group over one shared DataSelection,
\* with exclusive and non-exclusive members: the application preselects, the
\* members' models select and deselect, the user clicks the components.
NextGroup ==
    \/ FullCells = {} /\ NewDataSelection(FALSE)
    \/ \E c \in FullCells, a \in DistinctArrays : Assign(c, a)
    \/ \E k \in Checkables, c \in FullCells, own \in Items, excl \in BOOLEAN :
            WireSelection(k, c, own, excl)
    \/ \E k \in Checkables, isSelected \in BOOLEAN : MemberSetData(k, isSelected)
    \/ \E k \in Checkables, x \in BOOLEAN : ChangeEvent(k, x)

SpecGroup == Init /\ [][NextGroup]_vars

\* The members of the group over selection cell c, and what the array says
\* about member k.
Members(c) == {k \in Checkables : sbModel[k] # NoModel /\ sbModel[k].selection = c}
IsMember(k) ==
    GetData(Heap, sbModel[k].selection, sbModel[k].ownValue)

\* C23: in a group of components wired by createSelectionBinding to one
\* shared selection cell, the checked flag of every member says whether the
\* member's ownValue is in the shared array: right after the wiring and after
\* every setData call and every change event of any member, exclusive or not.
C23_GroupViewsShowMembership ==
    \A c \in FullCells : \A k \in Members(c) :
        view[k]["checked"] = Flag(IsMember(k))

C23_Witness ==
    /\ lastOp.op = "change" /\ lastOp.val = 1
    /\ Cardinality(Members(lastOp.cell)) = 2
    /\ sbModel[lastOp.comp].isExclusive
    /\ Len(lastOp.old) = 1 /\ value[lastOp.cell] # lastOp.old
    /\ \E k \in Members(lastOp.cell) :
          ~sbModel[k].isExclusive /\ view[k]["checked"] = 0

\* C24: an assignment of the value a State already holds still calls every
\* subscriber of the cell exactly once, in order, with that value.
C24_EqualValueStillNotifies ==
    [][(lastOp'.op = "assign" /\ kind[lastOp'.cell] = "State"
          /\ value[lastOp'.cell] = lastOp'.val) =>
            /\ Ids(Calls(lastOp'.trace)) = Subscribers(Heap, lastOp'.cell)
            /\ Args(Calls(lastOp'.trace))
                  = Constant(Len(Subscribers(Heap, lastOp'.cell)), lastOp'.val)
            /\ value' = value]_vars

C24_Witness ==
    /\ PlainAssign(prevOp) /\ PlainAssign(lastOp)
    /\ prevOp.val = lastOp.val /\ lastOp.val # 0
    /\ Len(lastOp.subs) >= 2
    /\ Len(Calls(lastOp.trace)) = Len(lastOp.subs)

\* Application code with a subscriber that assigns the cell it is bound to.
NextReentrant ==
    \/ \E v \in Values : NewState(v)
    \/ \E c \in FullCells : UserAddBinding(c)
    \/ \E c \in FullCells, w \in Values :
            UserAddCallback(c, NormalisingAction(c, w))
    \/ \E c \in FullCells, u \in 1..Len(issued) : UserRemoveBinding(c, u)
    \/ \E c \in FullCells, v \in Values : Assign(c, v)

SpecReentrant == Init /\ [][NextReentrant]_vars

\* The values assigned to cell c in a trace, in order, and how often x is in
\* a list.
ValuesSet(tr, c) == Args(EventsOf(tr, "set", c))
Count(q, x) == Cardinality({i \in 1..Len(q) : q[i] = x})

\* C25: in an assignment every subscriber of the cell is called exactly once
\* with each value the cell is assigned while the assignment runs, also when
\* a subscriber assigns the cell again from inside the fan-out.
C25_EachSubscriberSeesEachAssignedValue ==
    (PlainAssign(lastOp) /\ ~lastOp.overflow) =>
        \A i \in 1..Len(lastOp.subs) : \A x \in Values :
            Count(Args(CallsOn(lastOp.trace, <<lastOp.subs[i]>>)), x)
                = Count(ValuesSet(lastOp.trace, lastOp.cell), x)

\* What the code does: every subscriber is called once for each assignment
\* made, and its last call is given the value the cell ends with; without an
\* assignment from inside the fan-out every call is given the value assigned.
EachSubscriberCalledOncePerAssignment ==
    (PlainAssign(lastOp) /\ ~lastOp.overflow) =>
        \A i \in 1..Len(lastOp.subs) :
            LET args == Args(CallsOn(lastOp.trace, <<lastOp.subs[i]>>))
            IN  /\ Len(args) = Len(ValuesSet(lastOp.trace, lastOp.cell))
                /\ args[Len(args)] = value[lastOp.cell]
                /\ Len(args) = 1 => args = <<lastOp.val>>

\* Application code assigning and triggering the cells of a diamond of
\* ComputedStates.
NextDiamond ==
    \/ \E c \in DOMAIN kind, v \in Values : kind[c] \in StateKinds /\ Assign(c, v)
    \/ \E c \in DOMAIN kind : kind[c] \in StateKinds /\ UserTriggerAll(c)

SpecDiamond == InitDiamond /\ [][NextDiamond]_vars

\* The diamonds of the heap: d computed over b and c, both computed over a
\* alone.  What recomputing b, c and then d from the value x of a yields.
Diamonds ==
    {q \in [a : DOMAIN kind, b : DOMAIN kind, c : DOMAIN kind, d : DOMAIN kind] :
        /\ kind[q.d] = "ComputedState" /\ statesToBind[q.d] = <<q.b, q.c>>
        /\ q.b # q.c
        /\ kind[q.b] = "ComputedState" /\ statesToBind[q.b] = <<q.a>>
        /\ kind[q.c] = "ComputedState" /\ statesToBind[q.c] = <<q.a>>}
RecomputedFrom(x) == (x + 1) % Modulus
SettledFrom(x) == (RecomputedFrom(x) + RecomputedFrom(x) + 1) % Modulus

\* C26: while an assignment to a runs, the subscribers of d are called only
\* with values d's compute function yields for values of b and c that come
\* from one value of a, the one a held before or the one assigned.
C26_DiamondNotifiesConsistentValues ==
    [][\A q \in Diamonds :
          (/\ lastOp'.op = "assign" /\ lastOp'.cell = q.a
           /\ value[q.b] = RecomputedFrom(value[q.a])
           /\ value[q.c] = RecomputedFrom(value[q.a])) =>
             \A i \in 1..Len(CallsOn(lastOp'.trace, Subscribers(Heap, q.d))) :
                 CallsOn(lastOp'.trace, Subscribers(Heap, q.d))[i].arg
                     \in {SettledFrom(value[q.a]), SettledFrom(lastOp'.val)}]_vars

\* What the code does: d is recomputed and its subscribers are called once
\* when b has changed and once more when c has changed; the last call is
\* given what the value assigned to a yields, and d holds it.
DiamondSettlesAfterTwoRecomputations ==
    \A q \in Diamonds :
        (lastOp.op = "assign" /\ lastOp.cell = q.a) =>
            /\ Len(EventsOf(lastOp.trace, "set", q.d)) = 2
            /\ \A u \in Range(Subscribers(Heap, q.d)) :
                  LET args == Args(CallsOn(lastOp.trace, <<u>>))
                  IN  Len(args) = 2 /\ args[2] = SettledFrom(lastOp.val)
            /\ value[q.d] = SettledFrom(lastOp.val)

\* C27: the shared array of a group never lists a value twice, whatever
\* setData calls its exclusive and non-exclusive members make, and a setData
\* call that asks for what the array already says leaves the array as it is
\* and calls no subscriber.
C27_SelectionHasNoDuplicatesAndSetDataIsIdempotent ==
    /\ \A c \in FullCells : NoDuplicates(value[c])
    /\ (lastOp.op = "setData"
          /\ (IndexOf(lastOp.old, lastOp.items[1]) # -1) = (lastOp.val = 1)) =>
            /\ value[lastOp.cell] = lastOp.old
            /\ lastOp.trace = <<>>

C27_Witness ==
    /\ lastOp.op = "setData" /\ lastOp.val = 1
    /\ IndexOf(lastOp.old, lastOp.items[1]) = 1
    /\ Len(lastOp.subs) = 2
    /\ \E k1, k2 \in Members(lastOp.cell) :
          sbModel[k1].isExclusive /\ ~sbModel[k2].isExclusive

\* The user pressing, moving over and releasing the items of a List with
\* dragToSort, and the drag-start timers running.
NextList ==
    \/ \E i \in Items, ev \in {"mousedown", "touchstart"} : PressItem(i, ev)
    \/ DragStartTimerRuns
    \/ \E j \in Items \cup {0}, ev \in {"mousemove", "touchmove"} : MoveOver(j, ev)
    \/ \E ev \in {"mouseup", "touchend"} : ReleaseBody(ev)

SpecList == Init /\ [][NextList]_vars

\* No item is dragged and no timer is left that would start a drag.
NothingDragged == list.draggedData = 0 /\ list.timers = <<>>
IsStartDrag(o) == o.op \in {"mousedown", "touchstart"}
IsStopDrag(o) == o.op \in {"mouseup", "touchend"}

\* C28: when stopDrag has run, no item is dragged and no drag-start timer is
\* pending, and this stays so until the next startDrag, however startDrag,
\* the timers and stopDrag interleave.
C28_NothingDraggedAfterStopDrag ==
    [][/\ IsStopDrag(lastOp') => NothingDragged'
       /\ (NothingDragged /\ ~IsStartDrag(lastOp')) => NothingDragged']_vars

\* What the code does: stopDrag ends the drag under way and clears the timer
\* of the latest startDrag; the timers of earlier ones stay pending.
StopDragClearsLatestTimerOnly ==
    [][IsStopDrag(lastOp') =>
          /\ list'.draggedData = 0
          /\ list'.timers
                = SelectSeq(list.timers, LAMBDA t : t.id # list.dragStartTimeout)
          /\ TimerIds(list) \subseteq {list.dragStartTimeout}
                => NothingDragged']_vars

\* Application code and scene links driving one stage.
NextStage ==
    \/ StageAddScene
    \/ \E d \in -1..(MaxScenes - 2) : StageGoBackTo(d)
    \/ \E n \in 1..MaxScenes : SelectLink(n)
    \/ \E d \in 0..(MaxScenes - 1) : ReplaceSceneCalled(d)
    \/ ReplaceSceneResolves

SpecStage == Init /\ [][NextStage]_vars

\* The stage is as a replaceScene for depth d with new scene id leaves it.
ReplacedAt(d, id) ==
    /\ Len(stage.children) = d + 1
    /\ stage.children[Len(stage.children)].id = id
    /\ stage.children[Len(stage.children)].depth = d
    /\ stage.depth = d + 1

\* C29: when a replaceScene for depth d has resolved, the stage holds d + 1
\* scenes, the new scene is the last of them and depth.value is d + 1, also
\* when other replaceScene calls were started before this one resumed.
C29_ReplaceSceneLeavesDepthPlusOne ==
    lastOp.op = "replaceSceneResolved" => ReplacedAt(lastOp.val, lastOp.uuid)

\* What the code does: the resumed call appends its scene to the children
\* it finds and sets depth.value to their number; it leaves d + 1 scenes when
\* it finds the d scenes its goBackTo left.
ReplaceSceneAppendsToWhatItFinds ==
    lastOp.op = "replaceSceneResolved" =>
        /\ Len(stage.children) = Len(lastOp.old) + 1
        /\ \A n \in 1..Len(lastOp.old) : stage.children[n].id = lastOp.old[n].id
        /\ stage.children[Len(stage.children)].id = lastOp.uuid
        /\ stage.depth = Len(stage.children)
        /\ Len(lastOp.old) = lastOp.val => ReplacedAt(lastOp.val, lastOp.uuid)

\* Application code making a proxy of a State of the older version,
\* subscribing to the two States and assigning them.
NextCreateProxy ==
    \/ \E cfg \in ProxyCfgs : CreateProxy(cfg)
    \/ \E s \in ProxiedStates : ProxiedUserSubscribe(s)
    \/ \E s \in ProxiedStates, v \in Values : ProxiedAssign(s, v)

SpecCreateProxy == Init /\ [][NextCreateProxy]_vars

\* An assignment to the original or to the proxy, once the proxy is made.
AssignsProxied(o) == o.op = "assignProxied" /\ ProxyCreated

\* convertToOriginal(convertToProxy(x)) = x and the other way round, for
\* every value.
CfgIsInverse(cfg) ==
    /\ cfg # "oneWay"
    /\ \A x \in Values :
          /\ CfgConvertToOriginal(cfg, CfgConvertToProxy(cfg, x)) = x
          /\ CfgConvertToProxy(cfg, CfgConvertToOriginal(cfg, x)) = x

\* C30: a single assignment to the original or to the proxy made by
\* createProxy of the older version returns after finitely many subscriber
\* calls, whatever the pair of conversion functions, pairs that are not
\* inverses of each other included: it does not exhaust the call stack.
C30_ProxiedAssignTerminates ==
    AssignsProxied(lastOp) => ~lastOp.overflow

\* What the code does: an assignment runs to its end for conversion pairs
\* that are inverses of each other, for a proxy without convertToOriginal
\* and for the pair "clamp", and each of the two closures of createProxy is
\* then called at most twice; only the pair "flip", where converting to the
\* proxy and back changes the value for ever, exhausts the call stack.
ProxiedAssignTerminatesUnlessFlip ==
    AssignsProxied(lastOp) =>
        /\ lastOp.overflow => proxied.cfg = "flip"
        /\ CfgIsInverse(proxied.cfg) => ~lastOp.overflow
        /\ ~lastOp.overflow =>
              Len(SelectSeq(lastOp.trace,
                      LAMBDA e : e.e = "call" /\ e.fn.fn # "f")) <= 4

====
